---- MODULE Spec2Model ----
(***************************************************************************)
(* HapticRingMonitoring: the spike-rate volume controller of HapticSystem  *)
(* (src/core/haptic_system.py), the continuous channel of AudioPlayer      *)
(* (src/audio/audio_player.py) and the volume keys of HapticGUI            *)
(* (src/core/gui_window.py).                                               *)
(*                                                                         *)
(* Numbers are fixed point.  Time is counted in units of 0.1 ms            *)
(* (time.perf_counter readings), volumes in units of 1/10000, spike rates  *)
(* in units of 0.001 Hz.  Products are divided with truncation toward 0.   *)
(*                                                                         *)
(* The spike encoder (neuron/spike_encoder.py) is not part of src/.  In    *)
(* Spec and the specifications derived from it the spike flags it returns  *)
(* to step() are inputs of the step action; SpecEncoder runs step() with   *)
(* the encoder and its three Izhikevich neurons as the specification       *)
(* document describes them.  SpecPlayer drives the AudioPlayer through its *)
(* own methods, SpecRender the waveform synthesis of HapticRenderer,       *)
(* SpecConfig and SpecSounds the validation of the configuration and the   *)
(* frequencies built from it.  HapticSystem.update_mouse_state, which      *)
(* nothing in the repository calls, appears only as a variant of           *)
(* mouse_release.                                                          *)
(***************************************************************************)
EXTENDS Integers, Sequences, FiniteSets

VARIABLES
    now,                         \* current_time of the last step
    tick_count,                  \* number of step() calls so far
    mouse_pressed,               \* HapticSystem.mouse_pressed
    ra_motion_spike_timestamps,  \* deque of (timestamp, spike_occurred)
    current_spike_rate,
    target_volume,
    current_volume,
    spike_rate_update_counter,
    spike_count,                 \* local of the last _calculate_spike_rate
    effective_duration,          \* local of the last _calculate_spike_rate
    ra_motion_max_vol_scl,       \* config['sound']['ra_motion_max_vol_scl']
    sa_sound_volume,             \* config['sound']['sa_sound_volume']
    ra_click_volume,             \* config['sound']['ra_click_volume']
    current_material_key,        \* index into material_keys
    current_roughness,           \* HapticSystem.current_roughness
    sound_cache,                 \* cache key -> the synthesis that made it
    generator_calls,             \* waveform generator invocations so far
    ra_motion_sound,             \* cache key of the current motion sound
    ra_click_sound,              \* cache key of the current click sound
    ra_motion_loop_sound,        \* cache key of the current loop sound
    spike_encoder,               \* the SpikeEncoder object, by its calls
    is_initialized,              \* AudioPlayer.is_initialized
    continuous_channels,         \* AudioPlayer: channel_id -> looping sound
    target_volumes,              \* AudioPlayer: channel_id -> volume
    current_volumes,             \* AudioPlayer: channel_id -> volume
    audio_calls,                 \* calls the last operation made on AudioPlayer
    last_call,                   \* the last operation and what it returned
    request,                     \* arguments of a call of a pure function
    outcome                      \* what that call produced

\* the spike-rate volume controller
controller_vars == << ra_motion_spike_timestamps, current_spike_rate,
                      target_volume, current_volume,
                      spike_rate_update_counter, spike_count,
                      effective_duration >>

\* config['sound'] entries the volume keys change
config_vars == << ra_motion_max_vol_scl, sa_sound_volume, ra_click_volume >>

\* the current material and its sounds
material_vars == << current_material_key, current_roughness, ra_motion_sound,
                    ra_click_sound, ra_motion_loop_sound >>

\* the sound cache
cache_vars == << sound_cache, generator_calls >>

\* the AudioPlayer object
player_vars == << is_initialized, continuous_channels, target_volumes,
                  current_volumes >>

\* configuration loading and waveform synthesis, which run before the
\* system exists
offline_vars == << request, outcome >>

vars == << now, tick_count, mouse_pressed, controller_vars, config_vars,
           material_vars, cache_vars, spike_encoder, player_vars,
           audio_calls, last_call, offline_vars >>

(***************************************************************************)
(* Units                                                                   *)
(***************************************************************************)
TimeUnitsPerSecond == 10 * 1000          \* 0.1 ms
RateUnitsPerHz == 10 * 100               \* 0.001 Hz
VolOne == 10000                          \* the volume 1.0

(***************************************************************************)
(* Bounds of the model                                                     *)
(***************************************************************************)
MaxTicks == 4
MaxKeyTicks == 2
ScenarioTicks == 100
MaxLifeTicks == 3
MaxOldTicks == 3

\* Elapsed time between two step() calls: the nominal 1 ms timer period, a
\* late timer (16.9 ms) and a stall longer than the window (26 ms).
DtSet == {10, 169, 260}
\* Arguments of change_material: below range, two materials, above range.
MaterialInputs == {-1, 0, 3, 7}
\* perf_counter readings at construction for the 150 Hz scenario.
StartTimes == 0..66
\* Rates the rate-to-volume mapping is sampled at (0.001 Hz).
RateSamples == {-5000, 0, 1, 10000, 20000, 20001, 45000, 70000, 95000,
                119999, 120000, 150000, 400000}

(***************************************************************************)
(* Program constants                                                       *)
(***************************************************************************)
spike_window_duration_sec == 250         \* 0.025 s
min_effective_duration == 50             \* 0.005 s
volume_smooth_factor == 4                \* 0.4, in tenths
volume_fast_decay_factor == 8            \* 0.8, in tenths
spike_rate_update_interval == 2
snap_epsilon == 50                       \* 0.005
min_spike_rate == 20000                  \* 20.0 Hz
max_spike_rate == 120000                 \* 120.0 Hz
ra_motion_min_vol_scl == 7000            \* 0.7
ra_motion_max_vol_scl_default == 10000   \* 1.0
sa_sound_volume_default == 2000          \* 0.2
ra_click_volume_default == 10000         \* 1.0
volume_delta == 1000                     \* 0.1
NumMaterials == 7
player_smooth_factor == 15               \* 0.15, in hundredths
player_snap_epsilon == 10                \* 0.001
SaChannel == 0
RaMotionChannel == 1
RaClickChannel == 2
sa_hz == 60
ra_motion_base_hz == 30
ra_click_hz == 150
click_mag == 12                          \* 12.0

(***************************************************************************)
(* config['materials'], in the order of material_keys                      *)
(***************************************************************************)
material_keys ==
    << "Glass", "Metal", "Wood", "Plastic", "Fabric", "Ceramic", "Rubber" >>

\* 'r', in hundredths
MaterialRoughness == << 5, 120, 180, 30, 2, 60, 40 >>

\* 'f', in tenths
MaterialFreqFactor == << 16, 10, 8, 11, 6, 13, 7 >>

\* material_keys[material_index], material_index counted from 0
MaterialName(material_index) == material_keys[material_index + 1]

\* self.materials[key]['r']
Roughness(material_index) == MaterialRoughness[material_index + 1]

\* int(base_hz * mat_props['f'])
MaterialHz(base_hz, material_index) ==
    (base_hz * MaterialFreqFactor[material_index + 1]) \div 10

(***************************************************************************)
(* Arithmetic helpers                                                      *)
(***************************************************************************)
Abs(x) == IF x < 0 THEN -x ELSE x

Min(a, b) == IF a < b THEN a ELSE b

Max(a, b) == IF a > b THEN a ELSE b

\* np.clip(x, lo, hi)
Clip(x, lo, hi) == IF x < lo THEN lo ELSE IF x > hi THEN hi ELSE x

\* x * n / d on fixed-point numbers, truncated toward zero
MulDiv(x, n, d) == IF x * n >= 0 THEN (x * n) \div d ELSE -(((-x) * n) \div d)

EmptyMap == [c \in {} |-> 0]

\* m with key k set to v (dict assignment)
MapSet(m, k, v) == [c \in DOMAIN m \cup {k} |-> IF c = k THEN v ELSE m[c]]

\* m without key k (del)
MapDel(m, k) == [c \in DOMAIN m \ {k} |-> m[c]]

(***************************************************************************)
(* HapticSystem._spike_rate_to_volume                                      *)
(***************************************************************************)
SpikeRateToVolumeNoOffset(spike_rate, min_volume, max_volume) ==
    IF spike_rate <= 0 THEN 0
    ELSE IF spike_rate <= min_spike_rate THEN min_volume
    ELSE IF spike_rate >= max_spike_rate THEN max_volume
    ELSE Clip(min_volume + MulDiv(max_volume - min_volume, spike_rate,
                                  max_spike_rate - min_spike_rate),
              0, VolOne)

SpikeRateToVolume(spike_rate, min_volume, max_volume) ==
    IF spike_rate <= 0 THEN 0
    ELSE IF spike_rate <= min_spike_rate THEN min_volume
    ELSE IF spike_rate >= max_spike_rate THEN max_volume
    ELSE LET volume_range == max_volume - min_volume
             rate_range == max_spike_rate - min_spike_rate
             volume == min_volume
                       + MulDiv(volume_range, spike_rate - min_spike_rate,
                                rate_range)
         IN  Clip(volume, 0, VolOne)

(***************************************************************************)
(* HapticSystem._calculate_spike_rate                                      *)
(***************************************************************************)
PruneWindowKeepAll(window, cutoff_time) == window

\* while window and window[0][0] < cutoff_time: window.popleft()
RECURSIVE PruneWindow(_, _)
PruneWindow(window, cutoff_time) ==
    IF window # << >> /\ Head(window).t < cutoff_time
    THEN PruneWindow(Tail(window), cutoff_time)
    ELSE window

CountSpikesAll(window) == Len(window)

\* sum(1 for timestamp, spike_occurred in window if spike_occurred)
CountSpikes(window) ==
    Cardinality({i \in DOMAIN window : window[i].fired})

EffectiveDurationNoFloor(window, current_time) ==
    IF Len(window) > 0
    THEN Min(current_time - Head(window).t, spike_window_duration_sec)
    ELSE spike_window_duration_sec

EffectiveDuration(window, current_time) ==
    IF Len(window) > 0
    THEN LET oldest_time == Head(window).t
             actual_duration == current_time - oldest_time
         IN  Max(Min(actual_duration, spike_window_duration_sec),
                 min_effective_duration)
    ELSE spike_window_duration_sec

SpikeRatePerMillisecond(count, duration) ==
    IF duration > 0
    THEN (count * TimeUnitsPerSecond * RateUnitsPerHz) \div (duration * 1000)
    ELSE 0

\* spike_count / effective_duration if effective_duration > 0 else 0.0
SpikeRate(count, duration) ==
    IF duration > 0
    THEN (count * TimeUnitsPerSecond * RateUnitsPerHz) \div duration
    ELSE 0

(***************************************************************************)
(* HapticSystem._update_ra_motion_volume: target and smoothing             *)
(***************************************************************************)
TargetVolumeIgnoringPress(pressed, spike_rate, max_volume) ==
    IF spike_rate > 0
    THEN SpikeRateToVolume(spike_rate, ra_motion_min_vol_scl, max_volume)
    ELSE 0

TargetVolume(pressed, spike_rate, max_volume) ==
    IF pressed /\ spike_rate > 0
    THEN SpikeRateToVolume(spike_rate, ra_motion_min_vol_scl, max_volume)
    ELSE 0

SmoothFactorSwapped(target, current) ==
    IF target > current THEN volume_fast_decay_factor
    ELSE volume_smooth_factor

SmoothFactor(target, current) ==
    IF target > current THEN volume_smooth_factor
    ELSE volume_fast_decay_factor

SmoothVolumeWrongSign(target, current) ==
    LET moved == current - MulDiv(target - current,
                                  SmoothFactor(target, current), 10)
    IN  IF Abs(moved - target) < snap_epsilon THEN target ELSE moved

\* the smoothing without the snap to the target
SmoothVolumeNoSnap(target, current) ==
    current + MulDiv(target - current, SmoothFactor(target, current), 10)

SmoothVolume(target, current) ==
    LET moved == current + MulDiv(target - current,
                                  SmoothFactor(target, current), 10)
    IN  IF Abs(moved - target) < snap_epsilon THEN target ELSE moved

(***************************************************************************)
(* AudioPlayer                                                             *)
(***************************************************************************)
\* update_volumes without the snap to the target
PlayerSmoothNoSnap(target_vol, current_vol) ==
    current_vol + MulDiv(target_vol - current_vol, player_smooth_factor, 100)

\* one channel's step of update_volumes
PlayerSmooth(target_vol, current_vol) ==
    LET new_vol == current_vol
                   + MulDiv(target_vol - current_vol, player_smooth_factor, 100)
    IN  IF Abs(new_vol - target_vol) < player_snap_epsilon
        THEN target_vol ELSE new_vol

is_continuous_playing(channels, channel_id) == channel_id \in DOMAIN channels

\* the three maps after set_continuous_volume(channel_id, volume)
SetContinuousVolume(channels, targets, channel_id, volume) ==
    IF channel_id \in DOMAIN channels
    THEN MapSet(targets, channel_id, Clip(volume, 0, VolOne))
    ELSE targets

\* current_volumes after update_volumes()
UpdateVolumes(channels, targets, currents) ==
    [c \in DOMAIN currents |->
        IF c \in DOMAIN channels /\ c \in DOMAIN targets
        THEN PlayerSmooth(targets[c], currents[c])
        ELSE currents[c]]

(***************************************************************************)
(* Sounds.  A sound object is named by the cache key it is stored under:   *)
(* f"{role}_{mat_key}_{hz}".  The pressure sound is not cached.            *)
(***************************************************************************)
CacheKey(role, material_index, hz) ==
    [role |-> role, material |-> MaterialName(material_index), hz |-> hz]

sa_sound == [role |-> "sa", material |-> "", hz |-> sa_hz]

NoSound == [role |-> "", material |-> "", hz |-> 0]

RaMotionKey(material_index) ==
    CacheKey("ra_motion", material_index,
             MaterialHz(ra_motion_base_hz, material_index))

RaClickKey(material_index) ==
    CacheKey("ra_click", material_index,
             MaterialHz(ra_click_hz, material_index))

RaMotionLoopKey(material_index) ==
    CacheKey("ra_motion_loop", material_index,
             MaterialHz(ra_motion_base_hz, material_index))

\* _create_material_sounds: the three keys of one material
MaterialCacheKeys(material_index) ==
    << RaMotionKey(material_index), RaClickKey(material_index),
       RaMotionLoopKey(material_index) >>

\* _init_all_sounds: the pressure sound is generator call 1, then each
\* material's motion, click and loop sounds in the order of material_keys;
\* the cache maps a key to the generator call that made its buffer
InitAllSounds(calls_before) ==
    [key \in UNION {{MaterialCacheKeys(k)[i] : i \in 1..3} :
                       k \in 0..(NumMaterials - 1)} |->
        LET k == CHOOSE m \in 0..(NumMaterials - 1) :
                     \E i \in 1..3 : MaterialCacheKeys(m)[i] = key
            i == CHOOSE j \in 1..3 : MaterialCacheKeys(k)[j] = key
        IN  calls_before + 1 + 3 * k + i]

\* self.sound_cache = {}; self._init_all_sounds()
FreshSoundCache == InitAllSounds(0)

\* generator invocations of one _init_all_sounds
InitAllSoundsCalls == 1 + 3 * NumMaterials

CurrentMaterialSoundsStaleClick(material_index) ==
    [ra_motion |-> RaMotionKey(material_index),
     ra_click |-> RaClickKey(0),
     ra_motion_loop |-> RaMotionLoopKey(material_index)]

\* _update_current_material_sounds
CurrentMaterialSounds(material_index) ==
    [ra_motion |-> RaMotionKey(material_index),
     ra_click |-> RaClickKey(material_index),
     ra_motion_loop |-> RaMotionLoopKey(material_index)]

(***************************************************************************)
(* Calls on the AudioPlayer                                                *)
(***************************************************************************)
PlaySound(sound, channel_id, volume) ==
    [op |-> "play_sound", channel |-> channel_id, sound |-> sound,
     volume |-> volume]

StartContinuousSound(sound, channel_id, initial_volume) ==
    [op |-> "start_continuous_sound", channel |-> channel_id,
     sound |-> sound, volume |-> initial_volume]

StopContinuousSound(channel_id) ==
    [op |-> "stop_continuous_sound", channel |-> channel_id,
     sound |-> NoSound, volume |-> 0]

SetContinuousVolumeCall(channel_id, volume) ==
    [op |-> "set_continuous_volume", channel |-> channel_id,
     sound |-> NoSound, volume |-> volume]

QuitCall == [op |-> "quit", channel |-> -1, sound |-> NoSound, volume |-> 0]

\* the calls of a sequence that are calls of the method named
CallsOf(calls, name) == SelectSeq(calls, LAMBDA call : call.op = name)

(***************************************************************************)
(* Initial state: HapticSystem.__init__                                    *)
(***************************************************************************)
InitWith(start_time, initialized, encoder) ==
    /\ now = start_time
    /\ tick_count = 0
    /\ mouse_pressed = FALSE
    /\ ra_motion_spike_timestamps = << >>
    /\ current_spike_rate = 0
    /\ target_volume = 0
    /\ current_volume = 0
    /\ spike_rate_update_counter = 0
    /\ spike_count = 0
    /\ effective_duration = spike_window_duration_sec
    /\ ra_motion_max_vol_scl = ra_motion_max_vol_scl_default
    /\ sa_sound_volume = sa_sound_volume_default
    /\ ra_click_volume = ra_click_volume_default
    /\ current_material_key = 0
    /\ current_roughness = Roughness(0)
    /\ sound_cache = FreshSoundCache
    /\ generator_calls = InitAllSoundsCalls
    /\ ra_motion_sound = CurrentMaterialSounds(0).ra_motion
    /\ ra_click_sound = CurrentMaterialSounds(0).ra_click
    /\ ra_motion_loop_sound = CurrentMaterialSounds(0).ra_motion_loop
    /\ spike_encoder = encoder
    /\ is_initialized = initialized
    /\ continuous_channels =
          IF initialized
          THEN MapSet(EmptyMap, RaMotionChannel, RaMotionLoopKey(0))
          ELSE EmptyMap
    /\ target_volumes =
          IF initialized THEN MapSet(EmptyMap, RaMotionChannel, 0)
          ELSE EmptyMap
    /\ current_volumes =
          IF initialized THEN MapSet(EmptyMap, RaMotionChannel, 0)
          ELSE EmptyMap
    /\ audio_calls =
          << StartContinuousSound(RaMotionLoopKey(0), RaMotionChannel, 0) >>
    /\ last_call = [op |-> "__init__"]

\* the SpikeEncoder as the controller sees it: its pressure input and the
\* number of its steps
InitAt(start_time, initialized) ==
    InitWith(start_time, initialized, [sa_input |-> 0, steps |-> 0])

\* no call of a pure function under observation
NoRequest == [op |-> ""]

NoOutcome == [op |-> ""]

Init ==
    /\ \E initialized \in BOOLEAN : InitAt(0, initialized)
    /\ request = NoRequest
    /\ outcome = NoOutcome

(***************************************************************************)
(* HapticSystem._update_ra_motion_volume                                   *)
(***************************************************************************)
UpdateRaMotionVolume(ra_motion_fired, current_time) ==
    LET appended == Append(ra_motion_spike_timestamps,
                           [t |-> current_time, fired |-> ra_motion_fired])
        recompute == spike_rate_update_counter + 1 >= spike_rate_update_interval
        pruned == PruneWindow(appended,
                              current_time - spike_window_duration_sec)
        count == CountSpikes(pruned)
        duration == EffectiveDuration(pruned, current_time)
        rate == IF recompute THEN SpikeRate(count, duration)
                ELSE current_spike_rate
        target == TargetVolume(mouse_pressed, rate, ra_motion_max_vol_scl)
        volume == SmoothVolume(target, current_volume)
        targets == SetContinuousVolume(continuous_channels, target_volumes,
                                       RaMotionChannel, volume)
    IN  /\ ra_motion_spike_timestamps' = IF recompute THEN pruned ELSE appended
        /\ spike_rate_update_counter' =
              IF recompute THEN 0 ELSE spike_rate_update_counter + 1
        /\ current_spike_rate' = rate
        /\ spike_count' = IF recompute THEN count ELSE spike_count
        /\ effective_duration' =
              IF recompute THEN duration ELSE effective_duration
        /\ target_volume' = target
        /\ current_volume' = volume
        /\ target_volumes' = targets
        /\ current_volumes' =
              UpdateVolumes(continuous_channels, targets, current_volumes)

VolumeCallsWhenFired(ra_motion_fired, volume) ==
    IF ra_motion_fired
       /\ is_continuous_playing(continuous_channels, RaMotionChannel)
    THEN << SetContinuousVolumeCall(RaMotionChannel, volume) >>
    ELSE << >>

\* if self.audio_player.is_continuous_playing(1):
\*     self.audio_player.set_continuous_volume(1, self.current_volume)
VolumeCalls(ra_motion_fired, volume) ==
    IF is_continuous_playing(continuous_channels, RaMotionChannel)
    THEN << SetContinuousVolumeCall(RaMotionChannel, volume) >>
    ELSE << >>

(***************************************************************************)
(* HapticSystem.step, with the encoder's spike flags as input              *)
(***************************************************************************)
\* the one-shot sound of a spike, played on the channel of the loop
SpikeCallsOnLoopChannel(fired, sound, channel_id, volume) ==
    IF fired THEN << PlaySound(sound, RaMotionChannel, volume) >> ELSE << >>

\* the one-shot sound of a spike
SpikeCalls(fired, sound, channel_id, volume) ==
    IF fired THEN << PlaySound(sound, channel_id, volume) >> ELSE << >>

StepWith(dt, sa_fired, ra_motion_fired, ra_click_fired) ==
    LET current_time == now + dt
    IN  /\ now' = current_time
        /\ tick_count' = tick_count + 1
        /\ spike_encoder' =
              [spike_encoder EXCEPT !.steps = spike_encoder.steps + 1]
        /\ UpdateRaMotionVolume(ra_motion_fired, current_time)
        /\ audio_calls' =
              SpikeCalls(sa_fired, sa_sound, SaChannel, sa_sound_volume)
              \o SpikeCalls(ra_click_fired, ra_click_sound, RaClickChannel,
                            ra_click_volume)
              \o VolumeCalls(ra_motion_fired, current_volume')
        /\ UNCHANGED offline_vars
        /\ last_call' = [op |-> "step", sa_fired |-> sa_fired,
                         ra_motion_fired |-> ra_motion_fired,
                         ra_click_fired |-> ra_click_fired]
        /\ UNCHANGED << mouse_pressed, config_vars, material_vars,
                        cache_vars, is_initialized, continuous_channels >>

Step ==
    /\ tick_count < MaxTicks
    /\ \E dt \in DtSet, ra_motion_fired \in BOOLEAN :
          StepWith(dt, FALSE, ra_motion_fired, FALSE)

(***************************************************************************)
(* HapticSystem.mouse_press / mouse_release                                *)
(***************************************************************************)
PressCallsNone(sound, volume) == << >>

\* self.audio_player.play_sound(self.ra_click_sound, channel_id=2, ...)
PressCalls(sound, volume) == << PlaySound(sound, RaClickChannel, volume) >>

mouse_press ==
    /\ mouse_pressed' = TRUE
    /\ spike_encoder' = [spike_encoder EXCEPT !.sa_input = click_mag]
    /\ audio_calls' = PressCalls(ra_click_sound, ra_click_volume)
    /\ UNCHANGED offline_vars
    /\ last_call' = [op |-> "mouse_press"]
    /\ UNCHANGED << now, tick_count, controller_vars, config_vars,
                    material_vars, cache_vars, player_vars >>

\* what update_mouse_state(False, ...) does: the flag alone
mouse_release_flag_only ==
    /\ mouse_pressed' = FALSE
    /\ audio_calls' = << >>
    /\ UNCHANGED offline_vars
    /\ last_call' = [op |-> "mouse_release"]
    /\ UNCHANGED << now, tick_count, controller_vars, config_vars,
                    material_vars, cache_vars, spike_encoder, player_vars >>

ReleasedVolumeKept(volume) == volume

\* self.target_volume = 0.0; self.current_volume = 0.0
ReleasedVolume(volume) == 0

mouse_release ==
    /\ mouse_pressed' = FALSE
    /\ spike_encoder' = [spike_encoder EXCEPT !.sa_input = 0]
    /\ target_volume' = ReleasedVolume(target_volume)
    /\ current_volume' = ReleasedVolume(current_volume)
    /\ target_volumes' = SetContinuousVolume(continuous_channels,
                                             target_volumes, RaMotionChannel, 0)
    /\ audio_calls' =
          IF is_continuous_playing(continuous_channels, RaMotionChannel)
          THEN << SetContinuousVolumeCall(RaMotionChannel, 0) >>
          ELSE << >>
    /\ UNCHANGED offline_vars
    /\ last_call' = [op |-> "mouse_release"]
    /\ UNCHANGED << now, tick_count, ra_motion_spike_timestamps,
                    current_spike_rate, spike_rate_update_counter,
                    spike_count, effective_duration, config_vars,
                    material_vars, cache_vars, is_initialized,
                    continuous_channels, current_volumes >>

(***************************************************************************)
(* HapticSystem.change_material                                            *)
(***************************************************************************)
UpdateCurrentMaterialSoundsResynthesised(cache, material_index) ==
    [key \in DOMAIN cache |->
        IF \E i \in 1..3 : MaterialCacheKeys(material_index)[i] = key
        THEN cache[key] + InitAllSoundsCalls
        ELSE cache[key]]

\* _update_current_material_sounds takes the three sounds out of the cache
\* (self.sound_cache[...]) and stores nothing into it
UpdateCurrentMaterialSounds(cache, material_index) == cache

\* generator invocations that turn one cache into another: one per buffer
\* that is not the buffer cached before
GeneratorInvocations(cache_before, cache_after) ==
    Cardinality({key \in DOMAIN cache_after :
                    key \notin DOMAIN cache_before
                    \/ cache_before[key] # cache_after[key]})

\* if 0 <= material_index < len(self.material_keys)
ValidMaterialIndex(material_index) ==
    0 <= material_index /\ material_index < NumMaterials

change_material(material_index) ==
    IF ValidMaterialIndex(material_index)
    THEN LET stopped ==
                 is_continuous_playing(continuous_channels, RaMotionChannel)
             channels0 == IF stopped
                          THEN MapDel(continuous_channels, RaMotionChannel)
                          ELSE continuous_channels
             targets0 == IF stopped
                         THEN MapDel(target_volumes, RaMotionChannel)
                         ELSE target_volumes
             currents0 == IF stopped
                          THEN MapDel(current_volumes, RaMotionChannel)
                          ELSE current_volumes
             sounds == CurrentMaterialSounds(material_index)
         IN  /\ current_material_key' = material_index
             /\ current_roughness' = Roughness(material_index)
             /\ ra_motion_sound' = sounds.ra_motion
             /\ ra_click_sound' = sounds.ra_click
             /\ ra_motion_loop_sound' = sounds.ra_motion_loop
             /\ continuous_channels' =
                   IF is_initialized
                   THEN MapSet(channels0, RaMotionChannel,
                               sounds.ra_motion_loop)
                   ELSE channels0
             /\ target_volumes' =
                   IF is_initialized
                   THEN MapSet(targets0, RaMotionChannel, current_volume)
                   ELSE targets0
             /\ current_volumes' =
                   IF is_initialized
                   THEN MapSet(currents0, RaMotionChannel, current_volume)
                   ELSE currents0
             /\ audio_calls' =
                   (IF stopped THEN << StopContinuousSound(RaMotionChannel) >>
                    ELSE << >>)
                   \o << StartContinuousSound(sounds.ra_motion_loop,
                                              RaMotionChannel,
                                              current_volume) >>
             /\ sound_cache' =
                   UpdateCurrentMaterialSounds(sound_cache, material_index)
             /\ generator_calls' =
                   generator_calls
                   + GeneratorInvocations(sound_cache, sound_cache')
             /\ UNCHANGED offline_vars
             /\ last_call' = [op |-> "change_material", returned |-> TRUE]
             /\ UNCHANGED << now, tick_count, mouse_pressed, controller_vars,
                             config_vars, spike_encoder, is_initialized >>
    ELSE /\ audio_calls' = << >>
         /\ UNCHANGED offline_vars
         /\ last_call' = [op |-> "change_material", returned |-> FALSE]
         /\ UNCHANGED << now, tick_count, mouse_pressed, controller_vars,
                         config_vars, material_vars, cache_vars,
                         spike_encoder, player_vars >>

ChangeMaterial == \E material_index \in MaterialInputs :
                     change_material(material_index)

(***************************************************************************)
(* HapticGUI._adjust_volume (the + and - keys)                             *)
(***************************************************************************)
AdjustedVolume(volume, delta) == Max(0, Min(VolOne, volume + delta))

adjust_volume(delta) ==
    /\ sa_sound_volume' = AdjustedVolume(sa_sound_volume, delta)
    /\ ra_motion_max_vol_scl' = AdjustedVolume(ra_motion_max_vol_scl, delta)
    /\ ra_click_volume' = AdjustedVolume(ra_click_volume, delta)
    /\ audio_calls' = << >>
    /\ UNCHANGED offline_vars
    /\ last_call' = [op |-> "_adjust_volume"]
    /\ UNCHANGED << now, tick_count, mouse_pressed, controller_vars,
                    material_vars, cache_vars, spike_encoder, player_vars >>

AdjustVolume == \E delta \in {volume_delta, -volume_delta} :
                   adjust_volume(delta)

(***************************************************************************)
(* HapticSystem.cleanup                                                    *)
(***************************************************************************)
\* for channel_id in list(continuous_channels.keys()):
\*     stop_continuous_sound(channel_id)
\* (channel 1 is the only continuous channel HapticSystem ever starts)
StopAllCalls(channels) ==
    IF is_continuous_playing(channels, RaMotionChannel)
    THEN << StopContinuousSound(RaMotionChannel) >>
    ELSE << >>

CleanupCallsNoStop(channels) == << QuitCall >>

CleanupCalls(channels) == StopAllCalls(channels) \o << QuitCall >>

cleanup ==
    /\ continuous_channels' = EmptyMap
    /\ target_volumes' = EmptyMap
    /\ current_volumes' = EmptyMap
    /\ is_initialized' = FALSE
    /\ audio_calls' = CleanupCalls(continuous_channels)
    /\ UNCHANGED offline_vars
    /\ last_call' = [op |-> "cleanup"]
    /\ UNCHANGED << now, tick_count, mouse_pressed, controller_vars,
                    config_vars, material_vars, cache_vars, spike_encoder >>

(***************************************************************************)
(* HapticGUI._reset_simulation (the R key): cleanup of the old             *)
(* HapticSystem, then HapticSystem(self.config)                            *)
(***************************************************************************)
reset_simulation ==
    \E initialized \in BOOLEAN :
        /\ mouse_pressed' = FALSE
        /\ ra_motion_spike_timestamps' = << >>
        /\ current_spike_rate' = 0
        /\ target_volume' = 0
        /\ current_volume' = 0
        /\ spike_rate_update_counter' = 0
        /\ spike_count' = 0
        /\ effective_duration' = spike_window_duration_sec
        /\ current_material_key' = 0
        /\ current_roughness' = Roughness(0)
        /\ sound_cache' = FreshSoundCache
        /\ generator_calls' = InitAllSoundsCalls
        /\ ra_motion_sound' = CurrentMaterialSounds(0).ra_motion
        /\ ra_click_sound' = CurrentMaterialSounds(0).ra_click
        /\ ra_motion_loop_sound' = CurrentMaterialSounds(0).ra_motion_loop
        /\ spike_encoder' = [sa_input |-> 0, steps |-> 0]
        /\ is_initialized' = initialized
        /\ continuous_channels' =
              IF initialized
              THEN MapSet(EmptyMap, RaMotionChannel, RaMotionLoopKey(0))
              ELSE EmptyMap
        /\ target_volumes' =
              IF initialized THEN MapSet(EmptyMap, RaMotionChannel, 0)
              ELSE EmptyMap
        /\ current_volumes' =
              IF initialized THEN MapSet(EmptyMap, RaMotionChannel, 0)
              ELSE EmptyMap
        /\ audio_calls' =
              CleanupCalls(continuous_channels)
              \o << StartContinuousSound(RaMotionLoopKey(0),
                                         RaMotionChannel, 0) >>
        /\ UNCHANGED offline_vars
        /\ last_call' = [op |-> "_reset_simulation"]
        /\ UNCHANGED << now, tick_count, config_vars >>

\* HapticSystem driven through its own operations
Next == Step \/ mouse_press \/ mouse_release \/ ChangeMaterial

Spec == Init /\ [][Next]_vars

\* HapticGUI: the same operations and the volume keys
KeyStep ==
    /\ tick_count < MaxKeyTicks
    /\ \E dt \in DtSet, ra_motion_fired \in BOOLEAN :
          StepWith(dt, FALSE, ra_motion_fired, FALSE)

NextKeys ==
    KeyStep \/ mouse_press \/ mouse_release \/ ChangeMaterial \/ AdjustVolume

SpecKeys == Init /\ [][NextKeys]_vars

\* HapticSystem through its whole life: its operations, cleanup, and the
\* reset that replaces it by a new HapticSystem
LifeStep ==
    /\ tick_count < MaxLifeTicks
    /\ \E dt \in DtSet, sa_fired, ra_motion_fired, ra_click_fired \in BOOLEAN :
          StepWith(dt, sa_fired, ra_motion_fired, ra_click_fired)

NextLife ==
    \/ LifeStep
    \/ mouse_press
    \/ mouse_release
    \/ ChangeMaterial
    \/ cleanup
    \/ reset_simulation

SpecLife == Init /\ [][NextLife]_vars

(***************************************************************************)
(* The legacy monolith src/backup/main_old.py: TestWindow holds the same   *)
(* controller fields itself and drives the same AudioPlayer.  Its tick     *)
(* (update_neuron) runs the controller of _update_ra_motion_volume inline, *)
(* with the click sound played after the volume-set request; its press     *)
(* handler plays nothing.  Its material keys are not modelled.             *)
(***************************************************************************)
update_neuron(dt, sa_f, ra_motion_f, ra_click_f) ==
    LET current_time == now + dt
    IN  /\ now' = current_time
        /\ tick_count' = tick_count + 1
        /\ spike_encoder' =
              [spike_encoder EXCEPT !.steps = spike_encoder.steps + 1]
        /\ UpdateRaMotionVolume(ra_motion_f, current_time)
        /\ audio_calls' =
              SpikeCalls(sa_f, sa_sound, SaChannel, sa_sound_volume)
              \o VolumeCalls(ra_motion_f, current_volume')
              \o SpikeCalls(ra_click_f, ra_click_sound, RaClickChannel,
                            ra_click_volume)
        /\ UNCHANGED offline_vars
        /\ last_call' = [op |-> "update_neuron", sa_fired |-> sa_f,
                         ra_motion_fired |-> ra_motion_f,
                         ra_click_fired |-> ra_click_f]
        /\ UNCHANGED << mouse_pressed, config_vars, material_vars,
                        cache_vars, is_initialized, continuous_channels >>

UpdateNeuron ==
    /\ tick_count < MaxOldTicks
    /\ \E dt \in DtSet, sa_f, ra_motion_f, ra_click_f \in BOOLEAN :
          update_neuron(dt, sa_f, ra_motion_f, ra_click_f)

mousePressEvent ==
    /\ mouse_pressed' = TRUE
    /\ spike_encoder' = [spike_encoder EXCEPT !.sa_input = click_mag]
    /\ audio_calls' = << >>
    /\ UNCHANGED offline_vars
    /\ last_call' = [op |-> "mousePressEvent"]
    /\ UNCHANGED << now, tick_count, controller_vars, config_vars,
                    material_vars, cache_vars, player_vars >>

mouseReleaseEvent ==
    /\ mouse_pressed' = FALSE
    /\ spike_encoder' = [spike_encoder EXCEPT !.sa_input = 0]
    /\ target_volume' = 0
    /\ current_volume' = 0
    /\ target_volumes' = SetContinuousVolume(continuous_channels,
                                             target_volumes, RaMotionChannel, 0)
    /\ audio_calls' =
          IF is_continuous_playing(continuous_channels, RaMotionChannel)
          THEN << SetContinuousVolumeCall(RaMotionChannel, 0) >>
          ELSE << >>
    /\ UNCHANGED offline_vars
    /\ last_call' = [op |-> "mouseReleaseEvent"]
    /\ UNCHANGED << now, tick_count, ra_motion_spike_timestamps,
                    current_spike_rate, spike_rate_update_counter,
                    spike_count, effective_duration, config_vars,
                    material_vars, cache_vars, is_initialized,
                    continuous_channels, current_volumes >>

\* TestWindow._reset_simulation: a new SpikeEncoder, the window cleared, the
\* rate and the two volumes zeroed, the loop's target volume zeroed;
\* spike_rate_update_counter is not assigned
TestWindow_reset_simulation ==
    /\ spike_encoder' = [sa_input |-> 0, steps |-> 0]
    /\ mouse_pressed' = FALSE
    /\ ra_motion_spike_timestamps' = << >>
    /\ current_spike_rate' = 0
    /\ target_volume' = 0
    /\ current_volume' = 0
    /\ target_volumes' = SetContinuousVolume(continuous_channels,
                                             target_volumes, RaMotionChannel, 0)
    /\ audio_calls' =
          IF is_continuous_playing(continuous_channels, RaMotionChannel)
          THEN << SetContinuousVolumeCall(RaMotionChannel, 0) >>
          ELSE << >>
    /\ UNCHANGED offline_vars
    /\ last_call' = [op |-> "TestWindow._reset_simulation"]
    /\ UNCHANGED << now, tick_count, spike_rate_update_counter, spike_count,
                    effective_duration, config_vars, material_vars,
                    cache_vars, is_initialized, continuous_channels,
                    current_volumes >>

NextOld ==
    \/ UpdateNeuron
    \/ mousePressEvent
    \/ mouseReleaseEvent
    \/ TestWindow_reset_simulation

SpecOld == Init /\ [][NextOld]_vars

(***************************************************************************)
(* core/config.py: get_haptic_config builds the configuration dictionary   *)
(* and passes it to _validate_config.  A dictionary is modelled by the     *)
(* keys of its neuron sections, its three base frequencies and, for each   *)
(* material, the keys of the profile with r (hundredths) and f (tenths).   *)
(***************************************************************************)
AudioRangeMax == 22050

DefaultConfig ==
    [neuron_dt_ms |-> 1,
     plot_hist_sz |-> 500,
     sa_neuron |-> {"a", "b", "c", "d", "v_init", "init_a"},
     ra_neuron |-> {"base_a", "base_b", "base_c", "base_d", "v_init"},
     ra_click_neuron |-> {"a", "b", "c", "d", "v_init"},
     sound |-> [sa_hz |-> sa_hz,
                ra_motion_base_hz |-> ra_motion_base_hz,
                ra_click_hz |-> ra_click_hz],
     materials |->
        [name \in {material_keys[i] : i \in 1..NumMaterials} |->
            LET i == CHOOSE j \in 1..NumMaterials : material_keys[j] = name
            IN  [keys |-> {"r", "f", "type"},
                 r |-> MaterialRoughness[i],
                 f |-> MaterialFreqFactor[i]]]]

\* edits of the dictionary
NeuronSections == {"sa_neuron", "ra_neuron", "ra_click_neuron"}

HzInputs == {-1, 0, 22049, 22050}

MaterialValueInputs == {-1, 0, 1}

EditedMaterials == {"Glass", "Rubber"}

ConfigEdits ==
    {[kind |-> "none", where |-> "", key |-> "", value |-> 0]}
    \cup {[kind |-> "drop", where |-> section, key |-> key, value |-> 0] :
             section \in NeuronSections,
             key \in {"a", "b", "c", "d", "base_a", "base_b", "base_c",
                      "base_d", "v_init"}}
    \cup {[kind |-> "hz", where |-> "sound", key |-> key, value |-> value] :
             key \in {"sa_hz", "ra_motion_base_hz", "ra_click_hz"},
             value \in HzInputs}
    \cup {[kind |-> "material_drop", where |-> name, key |-> key,
           value |-> 0] :
             name \in EditedMaterials, key \in {"r", "f"}}
    \cup {[kind |-> "material_set", where |-> name, key |-> key,
           value |-> value] :
             name \in EditedMaterials, key \in {"r", "f"},
             value \in MaterialValueInputs}

ApplyEdit(config, edit) ==
    CASE edit.kind = "none" -> config
      [] edit.kind = "drop" ->
            [config EXCEPT ![edit.where] = @ \ {edit.key}]
      [] edit.kind = "hz" ->
            [config EXCEPT !.sound[edit.key] = edit.value]
      [] edit.kind = "material_drop" ->
            [config EXCEPT !.materials[edit.where].keys = @ \ {edit.key}]
      [] edit.kind = "material_set" ->
            [config EXCEPT !.materials[edit.where][edit.key] = edit.value]

ConfigInputs ==
    {ApplyEdit(ApplyEdit(DefaultConfig, first), second) :
        first \in ConfigEdits, second \in ConfigEdits}

\* 0 < hz < 22050
InAudioRange(hz) == 0 < hz /\ hz < AudioRangeMax

\* the message of the first assertion of the materials loop that fails for
\* one profile, "" when none does
MaterialFailure(mat_props) ==
    IF ~({"r", "f"} \subseteq mat_props.keys) THEN "missing properties"
    ELSE IF ~(mat_props.r > 0) THEN "roughness must be positive"
    ELSE IF ~(mat_props.f > 0) THEN "frequency factor must be positive"
    ELSE ""

\* _validate_config, the neuron sections: "" when the asserts pass
ValidateNeurons(config) ==
    IF ~({"a", "b", "c", "d"} \subseteq config.sa_neuron)
    THEN "SA neuron missing parameters"
    ELSE IF ~({"base_a", "base_b", "base_c", "base_d"}
                \subseteq config.ra_neuron)
    THEN "RA motion neuron missing parameters"
    ELSE IF ~({"a", "b", "c", "d"} \subseteq config.ra_click_neuron)
    THEN "RA click neuron missing parameters"
    ELSE ""

\* _validate_config: the message of the first failing assert, "" when the
\* validation passes
ValidateConfig(config) ==
    IF ~(config.neuron_dt_ms > 0) THEN "neuron_dt_ms must be positive"
    ELSE IF ~(config.plot_hist_sz > 0) THEN "plot_hist_sz must be positive"
    ELSE IF ValidateNeurons(config) # "" THEN ValidateNeurons(config)
    ELSE IF ~InAudioRange(config.sound.sa_hz)
    THEN "sa_hz must be in valid audio range"
    ELSE IF ~InAudioRange(config.sound.ra_motion_base_hz)
    THEN "ra_motion_base_hz must be in valid audio range"
    ELSE IF ~InAudioRange(config.sound.ra_click_hz)
    THEN "ra_click_hz must be in valid audio range"
    ELSE LET failing == {i \in 1..NumMaterials :
                            MaterialFailure(
                                config.materials[material_keys[i]]) # ""}
         IN  IF failing = {} THEN ""
             ELSE LET i == CHOOSE j \in failing :
                               \A k \in failing : j <= k
                  IN  MaterialFailure(config.materials[material_keys[i]])

\* get_haptic_config: the dictionary is returned when the validation
\* passes, otherwise the AssertionError leaves the function
get_haptic_config ==
    /\ request.op = "get_haptic_config"
    /\ outcome = NoOutcome
    /\ outcome' =
          LET message == ValidateConfig(request.config)
          IN  [op |-> "get_haptic_config",
               raised |-> IF message = "" THEN "" ELSE "AssertionError",
               message |-> message]
    /\ UNCHANGED << now, tick_count, mouse_pressed, controller_vars,
                    config_vars, material_vars, cache_vars, spike_encoder,
                    player_vars, audio_calls, last_call, request >>

InitConfig ==
    /\ InitAt(0, TRUE)
    /\ \E config \in ConfigInputs :
          request = [op |-> "get_haptic_config", config |-> config]
    /\ outcome = NoOutcome

SpecConfig == InitConfig /\ [][get_haptic_config]_vars

(***************************************************************************)
(* audio/haptic_renderer.py.  Durations are in hundredths of a             *)
(* millisecond, amplitudes in tenths, waveform values in thousandths.  A   *)
(* sound is described by the waveform function that made its buffer, the   *)
(* arguments that function received, the number of samples and one         *)
(* observed sample: request.wave is the value wave_data holds at that      *)
(* sample when the generator reaches its last statement.                   *)
(***************************************************************************)
sample_rate == 44100
MsUnit == 100                            \* 1 ms
WaveOne == 1000                          \* the waveform value 1.0
Int16Scale == 32767
Int16Min == -32768
Int16Max == 32767
ra_motion_ms == 100 * MsUnit
ra_click_ms == 70 * MsUnit
loop_duration_ms == 2000 * MsUnit
ra_motion_base_amp == 8                  \* 0.8
ra_click_amp == 25                       \* 2.5

MaterialTypes ==
    {"glass", "metal", "wood", "plastic", "fabric", "ceramic", "rubber"}

\* durations d for which the double product 44100 * (d / 1000.0) falls just
\* below the integer it equals exactly (350 ms, 570 ms, 690 ms, 700 ms)
FloatTruncatedDurations == {350 * MsUnit, 570 * MsUnit, 690 * MsUnit,
                            700 * MsUnit}


\* n_s = int(self.sample_rate * (ms / 1000.0))
NumSamples(ms) ==
    ((sample_rate \div MsUnit) * ms) \div 1000
    - (IF ms \in FloatTruncatedDurations THEN 1 ELSE 0)

\* np.tanh, by its Pade approximant x(27 + x^2)/(27 + 9 x^2) up to |x| = 3
Tanh(x) ==
    IF x >= 3 * WaveOne THEN WaveOne
    ELSE IF x <= -3 * WaveOne THEN -WaveOne
    ELSE LET square == (x * x) \div WaveOne
         IN  Clip(MulDiv(x, 27 * WaveOne + square, 27 * WaveOne + 9 * square),
                  -WaveOne, WaveOne)

\* the waveform function that makes the buffer of a generator call
\* (create_material_sound: the if/elif chain over material_type)
Waveform(generator, material_type) ==
    IF generator = "create_material_sound"
    THEN IF material_type \in MaterialTypes
         THEN material_type
         ELSE "create_sound_buffer"
    ELSE IF generator = "create_sound_object" THEN "create_sound_buffer"
    ELSE generator

FinalValueUnclipped(waveform, wave) ==
    IF waveform = "create_sa_background_sound"
    THEN MulDiv(Tanh(MulDiv(wave, 9, 10)), 95, 100)
    ELSE IF waveform = "create_ra_click_sound"
    THEN MulDiv(Tanh(MulDiv(wave, 9, 10)), 8, 10)
    ELSE wave

\* the value that is multiplied by 32767: np.clip(wave_data, -1, 1) in the
\* metal, wood, fabric, ceramic and rubber waveforms, np.tanh(wave_data *
\* 0.9) * 0.95 (0.8) in the pressure (click) sound, wave_data itself in
\* create_sound_buffer, create_sweep_sound, glass and plastic
FinalValue(waveform, wave) ==
    IF waveform \in {"metal", "wood", "fabric", "ceramic", "rubber"}
    THEN Clip(wave, -WaveOne, WaveOne)
    ELSE FinalValueUnclipped(waveform, wave)

\* (wave_data * 32767) before the cast, truncated as the cast truncates
Scaled(value) == MulDiv(value, Int16Scale, WaveOne)

InInt16(q) == Int16Min <= q /\ q <= Int16Max

Wrap16(q) == ((q - Int16Min) % (Int16Max - Int16Min + 1)) + Int16Min

\* .astype(np.int16): the C conversion of a double to a 16-bit integer
\* truncates toward zero; out of range it is undefined, and a build either
\* keeps the low 16 bits of a wider conversion or saturates
CastModes(q) == IF InInt16(q) THEN {"exact"} ELSE {"wrap", "saturate"}

AsInt16(q, cast) ==
    IF InInt16(q) THEN q
    ELSE IF cast = "wrap" THEN Wrap16(q)
    ELSE Clip(q, Int16Min, Int16Max)

\* does the generator hand back a one-sample silent Sound for an empty
\* buffer (`if sound_buffer.size == 0`)?  create_sound_buffer returns the
\* array as it is
SubstitutesSilence(generator) == generator # "create_sound_buffer"

UnknownTypeRejected(generator, material_type, hz, ms, amp, fade_out_ms, wave, cast) ==
    IF generator = "create_material_sound"
       /\ material_type \notin MaterialTypes
    THEN [waveform |-> "ValueError", hz |-> hz, ms |-> ms, amp |-> amp,
          fade_out_ms |-> fade_out_ms, size |-> 0, sample |-> 0]
    ELSE LET n_s == NumSamples(ms)
         IN  [waveform |-> Waveform(generator, material_type),
              hz |-> hz, ms |-> ms, amp |-> amp,
              fade_out_ms |-> fade_out_ms,
              size |-> IF n_s = 0 /\ SubstitutesSilence(generator)
                       THEN 1 ELSE n_s,
              sample |-> IF n_s = 0 THEN 0
                         ELSE AsInt16(Scaled(FinalValue(
                                  Waveform(generator, material_type),
                                  wave)), cast)]

\* one call of a generator: the sound (or buffer) it returns
Synthesize(generator, material_type, hz, ms, amp, fade_out_ms, wave, cast) ==
    LET waveform == Waveform(generator, material_type)
        n_s == NumSamples(ms)
    IN  [waveform |-> waveform,
         hz |-> hz, ms |-> ms, amp |-> amp, fade_out_ms |-> fade_out_ms,
         size |-> IF n_s = 0 /\ SubstitutesSilence(generator)
                  THEN 1 ELSE n_s,
         sample |-> IF n_s = 0 THEN 0
                    ELSE AsInt16(Scaled(FinalValue(waveform, wave)), cast)]

\* inputs
Generators ==
    {"create_sound_buffer", "create_sound_object", "create_sweep_sound",
     "create_material_sound", "create_sa_background_sound",
     "create_ra_click_sound"}

MaterialTypeInputs == MaterialTypes \cup {"sine", "stone"}

DurationInputs ==
    {1, 2, 4, 1 * MsUnit, 6 * MsUnit, ra_click_ms, ra_motion_ms,
     350 * MsUnit, loop_duration_ms}

AmpInputs == {ra_motion_base_amp, 15, ra_click_amp}

WaveInputs == {-2500, -1500, -1000, -1, 0, 700, 1000, 1200}

FadeOutInputs == {0, 10}

GeneratorRequests ==
    {[op |-> generator, material_type |-> material_type, hz |-> 48,
      ms |-> ms, amp |-> amp, fade_out_ms |-> fade_out_ms, wave |-> wave] :
        generator \in Generators, material_type \in MaterialTypeInputs,
        ms \in DurationInputs, amp \in AmpInputs,
        fade_out_ms \in FadeOutInputs, wave \in WaveInputs}

\* a request a generator can see: only create_material_sound takes a
\* material_type, and a waveform of amplitude amp holds values within
\* [-amp, amp]
RealisableRequest(call) ==
    /\ call.op # "create_material_sound" => call.material_type = "sine"
    /\ Abs(call.wave) * 10 <= call.amp * WaveOne

\* HapticSystem._create_material_sounds for one material profile, with or
\* without a 'type' entry
ProfileRequests ==
    {[op |-> "_create_material_sounds", has_type |-> has_type,
      material_type |-> material_type, material |-> material_index,
      wave |-> wave] :
        has_type \in BOOLEAN, material_type \in MaterialTypeInputs,
        material_index \in 0..(NumMaterials - 1),
        wave \in {w \in WaveInputs : Abs(w) * 10 <= ra_motion_base_amp * WaveOne}}

\* a call of one generator
Synthesis ==
    /\ request.op \in Generators
    /\ outcome = NoOutcome
    /\ \E cast \in CastModes(Scaled(FinalValue(
                       Waveform(request.op, request.material_type),
                       request.wave))) :
          outcome' =
              [op |-> request.op, cast |-> cast,
               sound |-> Synthesize(request.op, request.material_type,
                                    request.hz, request.ms, request.amp,
                                    request.fade_out_ms, request.wave,
                                    cast)]
    /\ UNCHANGED << now, tick_count, mouse_pressed, controller_vars,
                    config_vars, material_vars, cache_vars, spike_encoder,
                    player_vars, audio_calls, last_call, request >>

\* the motion sound or the loop sound of _create_material_sounds
MaterialOrPlainSound(has_type, material_type, hz, ms, amp, fade_out_ms, wave, cast) ==
    IF has_type
    THEN Synthesize("create_material_sound", material_type, hz, ms, amp,
                    fade_out_ms, wave, cast)
    ELSE Synthesize("create_sound_object", material_type, hz, ms, amp,
                    fade_out_ms, wave, cast)

\* HapticSystem._create_material_sounds: the three sounds of one material
CreateMaterialSounds ==
    /\ request.op = "_create_material_sounds"
    /\ outcome = NoOutcome
    /\ LET ra_motion_hz == MaterialHz(ra_motion_base_hz, request.material)
           click_hz == MaterialHz(ra_click_hz, request.material)
       IN  outcome' =
              [op |-> request.op, cast |-> "exact",
               ra_motion |->
                  MaterialOrPlainSound(request.has_type,
                      request.material_type, ra_motion_hz, ra_motion_ms,
                      ra_motion_base_amp, 10, request.wave, "exact"),
               ra_click |->
                  Synthesize("create_ra_click_sound", request.material_type,
                      click_hz, ra_click_ms, ra_click_amp, 5, request.wave,
                      "exact"),
               ra_motion_loop |->
                  MaterialOrPlainSound(request.has_type,
                      request.material_type, ra_motion_hz, loop_duration_ms,
                      ra_motion_base_amp, 0, request.wave, "exact")]
    /\ UNCHANGED << now, tick_count, mouse_pressed, controller_vars,
                    config_vars, material_vars, cache_vars, spike_encoder,
                    player_vars, audio_calls, last_call, request >>

InitRender ==
    /\ InitAt(0, TRUE)
    /\ \/ \E call \in GeneratorRequests :
             RealisableRequest(call) /\ request = call
       \/ \E call \in ProfileRequests : request = call
    /\ outcome = NoOutcome

NextRender == Synthesis \/ CreateMaterialSounds

SpecRender == InitRender /\ [][NextRender]_vars

(***************************************************************************)
(* neuron/izhikevich_neuron.py and neuron/spike_encoder.py are imported by *)
(* HapticSystem but are not part of src/: the integrator and the encoder   *)
(* are modelled from sections 4.1 and 4.2 of the specification, with the   *)
(* parameters HapticSystem.__init__ hands them from config.py.  Potentials,*)
(* recovery variables and currents are in hundredths, a and b in           *)
(* hundredths, the pointer speed in pixels per second.                     *)
(***************************************************************************)
NeuronUnit == 100                        \* 1 mV, 1 unit of current
spike_threshold_v == 30 * NeuronUnit     \* v' >= 30.0
neuron_dt_ms == 1
RA_CLICK_SUSTAIN_DURATION == 3
ra_click_scl_chg == 100 * NeuronUnit
ra_click_clip_min == -40 * NeuronUnit
ra_click_clip_max == 40 * NeuronUnit
ra_motion_clip_min == -30 * NeuronUnit
ra_motion_clip_max == 30 * NeuronUnit
ra_min_spd_for_input == 1
ra_motion_scl_spd_dev == 2               \* 0.02, in hundredths

\* config['sa_neuron'], config['ra_neuron'], config['ra_click_neuron']
sa_neuron ==
    [a |-> 5, b |-> 25, c |-> -65 * NeuronUnit, d |-> 6 * NeuronUnit,
     v_init |-> -70 * NeuronUnit]

ra_neuron ==
    [a |-> 40, b |-> 25, c |-> -65 * NeuronUnit, d |-> 150,
     v_init |-> -65 * NeuronUnit]

ra_click_neuron ==
    [a |-> 30, b |-> 25, c |-> -65 * NeuronUnit, d |-> 6 * NeuronUnit,
     v_init |-> -65 * NeuronUnit]

NeuronChannels == {"sa", "ra", "ra_click"}

NeuronParams(channel) ==
    IF channel = "sa" THEN sa_neuron
    ELSE IF channel = "ra" THEN ra_neuron
    ELSE ra_click_neuron

\* v = v_init, u = b * v_init at construction
NewNeuron(params) ==
    [v |-> params.v_init, u |-> MulDiv(params.b, params.v_init, 100)]

\* v + dt * (0.04 v^2 + 5 v + 140 - u + I)
EulerV(neuron, input_current) ==
    neuron.v
    + neuron_dt_ms * (MulDiv(4 * neuron.v, neuron.v, 100 * NeuronUnit)
                      + 5 * neuron.v + 140 * NeuronUnit
                      - neuron.u + input_current)

\* u + dt * (a (b v - u))
EulerU(neuron, params) ==
    neuron.u
    + neuron_dt_ms * MulDiv(params.a,
                            MulDiv(params.b, neuron.v, 100) - neuron.u, 100)

NeuronStepResetKeepsU(neuron, params, input_current) ==
    LET v_new == EulerV(neuron, input_current)
        u_new == EulerU(neuron, params)
    IN  IF v_new >= spike_threshold_v
        THEN [spiked |-> TRUE, v |-> params.c, u |-> neuron.u + params.d]
        ELSE [spiked |-> FALSE, v |-> v_new, u |-> u_new]

\* NeuronIntegrator.step(input_current, dt_ms)
NeuronStep(neuron, params, input_current) ==
    LET v_new == EulerV(neuron, input_current)
        u_new == EulerU(neuron, params)
    IN  IF v_new >= spike_threshold_v
        THEN [spiked |-> TRUE, v |-> params.c, u |-> u_new + params.d]
        ELSE [spiked |-> FALSE, v |-> v_new, u |-> u_new]

\* SpikeEncoder(sa_params, ra_params, ra_click_params, neuron_dt_ms,
\* input_config)
NewSpikeEncoder ==
    [sa_input |-> 0, steps |-> 0,
     sa |-> NewNeuron(sa_neuron),
     ra |-> NewNeuron(ra_neuron),
     ra_click |-> NewNeuron(ra_click_neuron),
     prev_mouse_pressed |-> FALSE,
     ra_click_sustain_counter |-> 0,
     pressed_samples |-> << >>]

\* motion current: speed * roughness * scale while pressed and moving at
\* least at the minimum speed, clipped; roughness is in hundredths
MotionCurrent(mouse_speed, material_roughness, pressed) ==
    IF pressed /\ mouse_speed >= ra_min_spd_for_input
    THEN Clip((mouse_speed * material_roughness * ra_motion_scl_spd_dev)
                  \div 100,
              ra_motion_clip_min, ra_motion_clip_max)
    ELSE 0

\* ticks of click current left once this step has seen mouse_pressed
SustainCounterLevel(encoder, pressed) ==
    IF pressed THEN RA_CLICK_SUSTAIN_DURATION
    ELSE encoder.ra_click_sustain_counter

\* a rising edge of mouse_pressed restarts the sustain window
SustainCounter(encoder, pressed) ==
    IF pressed /\ ~encoder.prev_mouse_pressed
    THEN RA_CLICK_SUSTAIN_DURATION
    ELSE encoder.ra_click_sustain_counter

\* click current: the fixed pulse, clipped, while the sustain window lasts
ClickCurrent(sustain_counter) ==
    IF sustain_counter > 0
    THEN Clip(ra_click_scl_chg, ra_click_clip_min, ra_click_clip_max)
    ELSE 0

\* the mouse_pressed arguments of the latest steps, the newest last: one
\* more than the sustain duration, which is what the click current of a
\* step can depend on
LatestSamples(samples) ==
    IF Len(samples) > RA_CLICK_SUSTAIN_DURATION + 1
    THEN Tail(samples) ELSE samples

\* SpikeEncoder.step(mouse_speed, avg_mouse_speed, material_roughness,
\* mouse_pressed): the three currents, the three integrator steps, the
\* encoder afterwards
EncoderStep(encoder, mouse_speed, material_roughness, pressed) ==
    LET sustain == SustainCounter(encoder, pressed)
        currents == [sa |-> encoder.sa_input * NeuronUnit,
                     ra |-> MotionCurrent(mouse_speed, material_roughness,
                                          pressed),
                     ra_click |-> ClickCurrent(sustain)]
        stepped == [channel \in NeuronChannels |->
                       NeuronStep(encoder[channel], NeuronParams(channel),
                                  currents[channel])]
    IN  [currents |-> currents,
         stepped |-> stepped,
         encoder |->
            [sa_input |-> encoder.sa_input,
             steps |-> encoder.steps + 1,
             sa |-> [v |-> stepped.sa.v, u |-> stepped.sa.u],
             ra |-> [v |-> stepped.ra.v, u |-> stepped.ra.u],
             ra_click |-> [v |-> stepped.ra_click.v,
                           u |-> stepped.ra_click.u],
             prev_mouse_pressed |-> pressed,
             ra_click_sustain_counter |->
                IF sustain > 0 THEN sustain - 1 ELSE 0,
             pressed_samples |->
                LatestSamples(Append(encoder.pressed_samples, pressed))]]

\* pointer speeds handed to step(), pixels per second
MouseSpeeds == {0, 100000}

\* magnitudes handed to mouse_press(click_magnitude)
ClickMagnitudes == {click_mag, 40}

MaxEncoderTicks == 6

\* HapticSystem.step with the encoder stepped
StepEncoded(dt, mouse_speed) ==
    LET current_time == now + dt
        result == EncoderStep(spike_encoder, mouse_speed, current_roughness,
                              mouse_pressed)
        sa_fired == result.stepped.sa.spiked
        ra_motion_fired == result.stepped.ra.spiked
        ra_click_fired == result.stepped.ra_click.spiked
    IN  /\ now' = current_time
        /\ tick_count' = tick_count + 1
        /\ spike_encoder' = result.encoder
        /\ UpdateRaMotionVolume(ra_motion_fired, current_time)
        /\ audio_calls' =
              SpikeCalls(sa_fired, sa_sound, SaChannel, sa_sound_volume)
              \o SpikeCalls(ra_click_fired, ra_click_sound, RaClickChannel,
                            ra_click_volume)
              \o VolumeCalls(ra_motion_fired, current_volume')
        /\ UNCHANGED offline_vars
        /\ last_call' = [op |-> "step", sa_fired |-> sa_fired,
                         ra_motion_fired |-> ra_motion_fired,
                         ra_click_fired |-> ra_click_fired,
                         mouse_pressed |-> mouse_pressed,
                         before |-> spike_encoder,
                         currents |-> result.currents]
        /\ UNCHANGED << mouse_pressed, config_vars, material_vars,
                        cache_vars, is_initialized, continuous_channels >>

EncoderTick ==
    /\ tick_count < MaxEncoderTicks
    /\ \E mouse_speed \in MouseSpeeds : StepEncoded(10, mouse_speed)

\* mouse_press(click_magnitude)
mouse_press_with(click_magnitude) ==
    /\ mouse_pressed' = TRUE
    /\ spike_encoder' = [spike_encoder EXCEPT !.sa_input = click_magnitude]
    /\ audio_calls' = PressCalls(ra_click_sound, ra_click_volume)
    /\ UNCHANGED offline_vars
    /\ last_call' = [op |-> "mouse_press"]
    /\ UNCHANGED << now, tick_count, controller_vars, config_vars,
                    material_vars, cache_vars, player_vars >>

EncoderPress ==
    \E click_magnitude \in ClickMagnitudes : mouse_press_with(click_magnitude)

InitEncoder ==
    /\ \E initialized \in BOOLEAN : InitWith(0, initialized, NewSpikeEncoder)
    /\ request = NoRequest
    /\ outcome = NoOutcome

NextEncoder ==
    \/ EncoderTick
    \/ EncoderPress
    \/ mouse_release

SpecEncoder == InitEncoder /\ [][NextEncoder]_vars

(***************************************************************************)
(* AudioPlayer driven directly through its methods, with arguments of any  *)
(* value.  A sound argument is a pygame.mixer.Sound or something else; a   *)
(* channel id the mixer has no channel for makes pygame raise inside the   *)
(* method's try block.                                                     *)
(***************************************************************************)
\* channel_id arguments: not a channel, the loop's channel
ChannelInputs == {-1, RaMotionChannel}

\* volume arguments: below the range, inside it, above it
VolumeInputs == {-5000, 5000, 15000}

MaxPlayerUpdates == 3

ValidChannel(channel_id) == channel_id >= 0

PlayedVolumeUnclipped(volume) == volume

\* if not 0 <= volume <= 1.0: volume = np.clip(volume, 0.0, 1.0)
PlayedVolume(volume) ==
    IF ~(0 <= volume /\ volume <= VolOne) THEN Clip(volume, 0, VolOne)
    ELSE volume

\* play_sound(sound_object, channel_id, volume)
play_sound(is_sound, channel_id, volume) ==
    /\ audio_calls' = << PlaySound(NoSound, channel_id, volume) >>
    /\ last_call' =
          IF is_initialized /\ is_sound /\ ValidChannel(channel_id)
          THEN [op |-> "play_sound", returned |-> TRUE, raised |-> FALSE,
                channel |-> channel_id, volume |-> volume,
                played_volume |-> PlayedVolume(volume)]
          ELSE [op |-> "play_sound", returned |-> FALSE, raised |-> FALSE,
                channel |-> channel_id, volume |-> volume,
                played_volume |-> -1]
    /\ UNCHANGED << now, tick_count, mouse_pressed, controller_vars,
                    config_vars, material_vars, cache_vars, spike_encoder,
                    player_vars, offline_vars >>

InitialVolumeClipped(initial_volume) == Clip(initial_volume, 0, VolOne)

\* self.current_volumes[channel_id] = initial_volume
\* self.target_volumes[channel_id] = initial_volume
InitialVolume(initial_volume) == initial_volume

\* start_continuous_sound(sound_object, channel_id, initial_volume)
start_continuous_sound(is_sound, channel_id, initial_volume) ==
    LET started == is_initialized /\ is_sound /\ ValidChannel(channel_id)
    IN  /\ continuous_channels' =
              IF started
              THEN MapSet(continuous_channels, channel_id, ra_motion_loop_sound)
              ELSE continuous_channels
        /\ current_volumes' =
              IF started
              THEN MapSet(current_volumes, channel_id,
                          InitialVolume(initial_volume))
              ELSE current_volumes
        /\ target_volumes' =
              IF started
              THEN MapSet(target_volumes, channel_id,
                          InitialVolume(initial_volume))
              ELSE target_volumes
        /\ audio_calls' = << StartContinuousSound(ra_motion_loop_sound,
                                                  channel_id, initial_volume) >>
        /\ last_call' = [op |-> "start_continuous_sound",
                         returned |-> started, raised |-> FALSE,
                         channel |-> channel_id, volume |-> initial_volume]
        /\ UNCHANGED << now, tick_count, mouse_pressed, controller_vars,
                        config_vars, material_vars, cache_vars, spike_encoder,
                        is_initialized, offline_vars >>

\* set_continuous_volume(channel_id, target_volume)
set_continuous_volume(channel_id, volume) ==
    /\ target_volumes' = SetContinuousVolume(continuous_channels,
                                             target_volumes, channel_id, volume)
    /\ audio_calls' = << SetContinuousVolumeCall(channel_id, volume) >>
    /\ last_call' = [op |-> "set_continuous_volume", returned |-> FALSE,
                     raised |-> FALSE, channel |-> channel_id,
                     volume |-> volume]
    /\ UNCHANGED << now, tick_count, mouse_pressed, controller_vars,
                    config_vars, material_vars, cache_vars, spike_encoder,
                    is_initialized, continuous_channels, current_volumes,
                    offline_vars >>

\* update_volumes()
update_volumes ==
    /\ tick_count < MaxPlayerUpdates
    /\ tick_count' = tick_count + 1
    /\ current_volumes' =
          UpdateVolumes(continuous_channels, target_volumes, current_volumes)
    /\ audio_calls' = << >>
    /\ last_call' = [op |-> "update_volumes", returned |-> FALSE,
                     raised |-> FALSE, channel |-> -1, volume |-> 0]
    /\ UNCHANGED << now, mouse_pressed, controller_vars, config_vars,
                    material_vars, cache_vars, spike_encoder, is_initialized,
                    continuous_channels, target_volumes, offline_vars >>

StoppedTargetsKept(targets, channel_id) == targets

\* if channel_id in self.target_volumes: del self.target_volumes[channel_id]
StoppedTargets(targets, channel_id) == MapDel(targets, channel_id)

\* stop_continuous_sound(channel_id)
stop_continuous_sound(channel_id) ==
    LET playing == is_continuous_playing(continuous_channels, channel_id)
    IN  /\ continuous_channels' =
              IF playing THEN MapDel(continuous_channels, channel_id)
              ELSE continuous_channels
        /\ current_volumes' =
              IF playing THEN MapDel(current_volumes, channel_id)
              ELSE current_volumes
        /\ target_volumes' =
              IF playing THEN StoppedTargets(target_volumes, channel_id)
              ELSE target_volumes
        /\ audio_calls' = << StopContinuousSound(channel_id) >>
        /\ last_call' = [op |-> "stop_continuous_sound", returned |-> playing,
                         raised |-> FALSE, channel |-> channel_id,
                         volume |-> 0]
        /\ UNCHANGED << now, tick_count, mouse_pressed, controller_vars,
                        config_vars, material_vars, cache_vars, spike_encoder,
                        is_initialized, offline_vars >>

\* target_volumes after stop_continuous_sound of every channel of a set
RECURSIVE StopAllTargets(_, _)
StopAllTargets(targets, channels) ==
    IF channels = {} THEN targets
    ELSE LET channel_id == CHOOSE c \in channels : TRUE
         IN  StopAllTargets(StoppedTargets(targets, channel_id),
                            channels \ {channel_id})

\* quit(): every continuous channel stopped, then pygame.mixer.quit()
quit ==
    /\ continuous_channels' =
          IF is_initialized THEN EmptyMap ELSE continuous_channels
    /\ current_volumes' =
          IF is_initialized
          THEN [c \in DOMAIN current_volumes \ DOMAIN continuous_channels |->
                   current_volumes[c]]
          ELSE current_volumes
    /\ target_volumes' =
          IF is_initialized
          THEN StopAllTargets(target_volumes, DOMAIN continuous_channels)
          ELSE target_volumes
    /\ is_initialized' = FALSE
    /\ audio_calls' = << QuitCall >>
    /\ last_call' = [op |-> "quit", returned |-> FALSE, raised |-> FALSE,
                     channel |-> -1, volume |-> 0]
    /\ UNCHANGED << now, tick_count, mouse_pressed, controller_vars,
                    config_vars, material_vars, cache_vars, spike_encoder,
                    offline_vars >>

PlaySoundCall ==
    \E is_sound \in BOOLEAN, channel_id \in ChannelInputs \cup {RaClickChannel},
       volume \in VolumeInputs :
        play_sound(is_sound, channel_id, volume)

StartContinuousSoundCall ==
    \E is_sound \in BOOLEAN, channel_id \in ChannelInputs,
       initial_volume \in VolumeInputs :
        start_continuous_sound(is_sound, channel_id, initial_volume)

SetContinuousVolumeCallOf ==
    \E channel_id \in ChannelInputs, volume \in VolumeInputs :
        set_continuous_volume(channel_id, volume)

StopContinuousSoundCall ==
    \E channel_id \in ChannelInputs : stop_continuous_sound(channel_id)

NextPlayer ==
    \/ PlaySoundCall
    \/ StartContinuousSoundCall
    \/ SetContinuousVolumeCallOf
    \/ update_volumes
    \/ StopContinuousSoundCall
    \/ quit

SpecPlayer == Init /\ [][NextPlayer]_vars

(***************************************************************************)
(* HapticSystem._init_all_sounds on a validated configuration: the         *)
(* frequencies that _create_material_sounds hands to the generators        *)
(***************************************************************************)
\* int(snd_cfg[base_key] * mat_props['f']), f in tenths
ConfigMaterialHz(config, base_key, name) ==
    (config.sound[base_key] * config.materials[name].f) \div 10

\* the generator calls of _create_material_sounds for one material
MaterialFrequencies(config, name) ==
    {[generator |-> "ra_motion", material |-> name,
      hz |-> ConfigMaterialHz(config, "ra_motion_base_hz", name)],
     [generator |-> "ra_click", material |-> name,
      hz |-> ConfigMaterialHz(config, "ra_click_hz", name)],
     [generator |-> "ra_motion_loop", material |-> name,
      hz |-> ConfigMaterialHz(config, "ra_motion_base_hz", name)]}

\* for mat_key, mat_props in self.materials.items(): ...
init_all_sounds ==
    /\ request.op = "get_haptic_config"
    /\ outcome.op = "get_haptic_config"
    /\ outcome.raised = ""
    /\ outcome' =
          [op |-> "_init_all_sounds",
           frequencies |->
              UNION {MaterialFrequencies(request.config, material_keys[i]) :
                        i \in 1..NumMaterials}]
    /\ UNCHANGED << now, tick_count, mouse_pressed, controller_vars,
                    config_vars, material_vars, cache_vars, spike_encoder,
                    player_vars, audio_calls, last_call, request >>

NextSounds == get_haptic_config \/ init_all_sounds

SpecSounds == InitConfig /\ [][NextSounds]_vars

TypeOK ==
    /\ now \in Nat
    /\ tick_count \in Nat
    /\ mouse_pressed \in BOOLEAN
    /\ current_volume \in Int
    /\ target_volume \in Int
    /\ DOMAIN continuous_channels \subseteq {RaMotionChannel}

(***************************************************************************)
(* The 150 Hz scenario: a press, then 1 ms ticks with motion spikes at the *)
(* instants k/150 s of the clock.                                          *)
(***************************************************************************)
Spike150(t) ==
    (t * 150) \div TimeUnitsPerSecond > ((t - 10) * 150) \div TimeUnitsPerSecond

InitScenario ==
    /\ \E start_time \in StartTimes, initialized \in BOOLEAN :
          InitAt(start_time, initialized)
    /\ request = NoRequest
    /\ outcome = NoOutcome

ScenarioPress == tick_count = 0 /\ ~mouse_pressed /\ mouse_press

ScenarioStep ==
    /\ mouse_pressed
    /\ tick_count < ScenarioTicks
    /\ \E sa_fired, ra_click_fired \in BOOLEAN :
          StepWith(10, sa_fired, Spike150(now + 10), ra_click_fired)

NextScenario == ScenarioPress \/ ScenarioStep

SpecScenario == InitScenario /\ [][NextScenario]_vars

(***************************************************************************)
(* The release scenario: a press, pressed 1 ms ticks (motion spikes free   *)
(* on the first ticks, then at 150 Hz), a release at any moment, and       *)
(* released 1 ms ticks from then on; the material may change meanwhile.    *)
(***************************************************************************)
FreeRampTicks == 4
RampTicks == 24
DecayTicks == 50

DecayPress == tick_count = 0 /\ ~mouse_pressed /\ mouse_press

DecayRamp ==
    /\ mouse_pressed
    /\ tick_count < RampTicks
    /\ \E ra_motion_fired \in BOOLEAN :
          /\ tick_count >= FreeRampTicks => ra_motion_fired = Spike150(now + 10)
          /\ StepWith(10, FALSE, ra_motion_fired, FALSE)

DecayRelease == mouse_pressed /\ mouse_release

DecayStep ==
    /\ ~mouse_pressed
    /\ tick_count < RampTicks + DecayTicks
    /\ StepWith(10, FALSE, Spike150(now + 10), FALSE)

DecayChangeMaterial ==
    /\ ~mouse_pressed
    /\ tick_count > 0
    /\ current_material_key = 0
    /\ change_material(1)

NextDecay ==
    DecayPress \/ DecayRamp \/ DecayRelease \/ DecayStep
    \/ DecayChangeMaterial

SpecDecay == Init /\ [][NextDecay]_vars

(***************************************************************************)
(* Properties                                                              *)
(***************************************************************************)
IsTick == tick_count' = tick_count + 1

IsRelease == mouse_pressed /\ ~mouse_pressed'

Volume(spike_rate) ==
    SpikeRateToVolume(spike_rate, ra_motion_min_vol_scl, ra_motion_max_vol_scl)

\* C1: in every reachable state target_volume and current_volume are
\* within [0, 1].
C1_VolumesInRange ==
    /\ 0 <= target_volume /\ target_volume <= VolOne
    /\ 0 <= current_volume /\ current_volume <= VolOne

\* pressed again after a release: the controller restarts its attack from 0
\* while the loop still plays louder from the earlier press
C1_Witness ==
    /\ mouse_pressed
    /\ target_volume = VolOne
    /\ current_volume = (VolOne * volume_smooth_factor) \div 10
    /\ RaMotionChannel \in DOMAIN current_volumes
    /\ current_volumes[RaMotionChannel] > current_volume

\* C2: a tick executed while mouse_pressed is false leaves target_volume 0,
\* whatever current_spike_rate is.
C2_ReleasedTickSilent ==
    [][(IsTick /\ ~mouse_pressed) => target_volume' = 0]_vars

\* never pressed, yet the rate estimator has seen spikes
C2_Witness ==
    /\ ~mouse_pressed
    /\ tick_count >= 2
    /\ current_spike_rate >= max_spike_rate
    /\ target_volume = 0

\* the piecewise mapping of the rate, up to the truncation of the quotient
PiecewiseVolume(r, v, min_volume, max_volume) ==
    /\ r <= 0 => v = 0
    /\ (0 < r /\ r <= min_spike_rate) => v = min_volume
    /\ r >= max_spike_rate => v = max_volume
    /\ (min_spike_rate < r /\ r < max_spike_rate) =>
          LET scaled == (r - min_spike_rate) * (max_volume - min_volume)
              rate_range == max_spike_rate - min_spike_rate
          IN  Abs((v - min_volume) * rate_range - scaled) < rate_range

\* C3 as stated: the piecewise mapping, and rate 70 Hz maps strictly between
\* min_volume and max_volume.
C3_Original ==
    /\ \A r \in RateSamples :
          PiecewiseVolume(r, Volume(r), ra_motion_min_vol_scl,
                          ra_motion_max_vol_scl)
    /\ ra_motion_min_vol_scl < Volume(70000)
    /\ Volume(70000) < ra_motion_max_vol_scl

\* C3 amended: the piecewise mapping; rate 70 Hz maps to the midpoint of
\* min_volume and max_volume, inside the closed interval they span, and
\* strictly between them under the default configuration.
C3_PiecewiseMidpoint ==
    /\ \A r \in RateSamples :
          PiecewiseVolume(r, Volume(r), ra_motion_min_vol_scl,
                          ra_motion_max_vol_scl)
    /\ 2 * Volume(70000) = ra_motion_min_vol_scl + ra_motion_max_vol_scl
    /\ Min(ra_motion_min_vol_scl, ra_motion_max_vol_scl) <= Volume(70000)
    /\ Volume(70000) <= Max(ra_motion_min_vol_scl, ra_motion_max_vol_scl)
    /\ ra_motion_max_vol_scl = ra_motion_max_vol_scl_default =>
          /\ ra_motion_min_vol_scl < Volume(70000)
          /\ Volume(70000) < ra_motion_max_vol_scl

\* a tick used the interpolation branch after the volume keys have brought
\* max_volume down to min_volume
C3_Witness ==
    /\ ra_motion_max_vol_scl = ra_motion_min_vol_scl
    /\ mouse_pressed
    /\ min_spike_rate < current_spike_rate
    /\ current_spike_rate < max_spike_rate
    /\ target_volume = ra_motion_min_vol_scl

\* C4: the rate-to-volume mapping is non-decreasing in the rate in every
\* reachable configuration.
C4_Monotonic ==
    \A r1, r2 \in RateSamples : r1 <= r2 => Volume(r1) <= Volume(r2)

\* C5: a tick moves current_volume by (target - current) * f, f the attack
\* factor when the target is above and the decay factor when it is below,
\* and then snaps it to the target when they differ by less than 0.005.
C5_Smoothing ==
    [][IsTick =>
         LET t == target_volume'
             c == current_volume
             moved == IF t > c
                      THEN c + ((t - c) * volume_smooth_factor) \div 10
                      ELSE c - ((c - t) * volume_fast_decay_factor) \div 10
         IN  current_volume' = IF Abs(moved - t) < snap_epsilon THEN t
                               ELSE moved]_vars

\* a decay in progress: the target fell below the volume and the step did
\* not reach the snapping distance
C5_Witness ==
    /\ mouse_pressed
    /\ target_volume < current_volume
    /\ current_volume < (VolOne * volume_smooth_factor) \div 10

\* ticks of smoothing toward a target of 0 with the given factor (tenths)
\* until the volume is within snap_epsilon of 0
RECURSIVE TicksToEpsilon(_, _)
TicksToEpsilon(volume, factor) ==
    IF volume < snap_epsilon THEN 0
    ELSE 1 + TicksToEpsilon(volume - (volume * factor) \div 10, factor)

C7_Original ==
    [][IsTick =>
         /\ current_volume' >= current_volume
         /\ LET moved == current_volume
                         + ((target_volume' - current_volume)
                            * volume_smooth_factor) \div 10
            IN  current_volume' \in {moved, target_volume'}
         /\ tick_count' >= 100 =>
               /\ current_spike_rate' >= max_spike_rate
               /\ target_volume' = ra_motion_max_vol_scl
               /\ current_volume' = ra_motion_max_vol_scl]_vars

\* C7 amended: in the 150 Hz scenario a tick whose target is above
\* current_volume raises it with the attack factor (or snaps it to the
\* target), a tick whose target is below lowers it, and after 100 ticks the
\* rate is at least 120 Hz and target_volume and current_volume equal
\* max_volume.
C7_ScenarioConverges ==
    [][IsTick =>
         /\ target_volume' > current_volume =>
               LET moved == current_volume
                            + ((target_volume' - current_volume)
                               * volume_smooth_factor) \div 10
               IN  /\ current_volume' > current_volume
                   /\ current_volume' \in {moved, target_volume'}
         /\ target_volume' <= current_volume =>
               /\ target_volume' <= current_volume'
               /\ current_volume' <= current_volume
         /\ tick_count' >= 100 =>
               /\ current_spike_rate' >= max_spike_rate
               /\ target_volume' = ra_motion_max_vol_scl
               /\ current_volume' = ra_motion_max_vol_scl]_vars

\* the scenario has run its 100 ticks and the volume has reached max_volume
C7_Witness ==
    /\ tick_count = 100
    /\ mouse_pressed
    /\ current_spike_rate >= max_spike_rate
    /\ current_volume = ra_motion_max_vol_scl_default

NoStaleEntry(window, current_time) ==
    \A i \in DOMAIN window :
        window[i].t >= current_time - spike_window_duration_sec

\* the window after a step: the old window with one entry appended at the
\* tail and some entries dropped from the head
HeadTailOnly ==
    \/ ra_motion_spike_timestamps' = ra_motion_spike_timestamps
    \/ /\ Len(ra_motion_spike_timestamps') >= 1
       /\ Len(ra_motion_spike_timestamps')
            <= Len(ra_motion_spike_timestamps) + 1
       /\ ra_motion_spike_timestamps'[Len(ra_motion_spike_timestamps')].t
            = now'
       /\ LET dropped == Len(ra_motion_spike_timestamps) + 1
                         - Len(ra_motion_spike_timestamps')
          IN  \A i \in 1..(Len(ra_motion_spike_timestamps') - 1) :
                 ra_motion_spike_timestamps'[i]
                   = ra_motion_spike_timestamps[i + dropped]

\* C8 as stated: after every tick the window holds no entry older than
\* now - 25 ms.
C8_Original == NoStaleEntry(ra_motion_spike_timestamps, now)

\* C8 amended: the window is pruned on the rate-recompute ticks only; after
\* such a tick it holds no entry older than now - 25 ms, a tick in between
\* only appends, and entries are only ever appended at the tail and removed
\* from the head.
C8_PrunedOnRecompute ==
    [][/\ HeadTailOnly
       /\ (IsTick /\ spike_rate_update_counter' = 0) =>
             NoStaleEntry(ra_motion_spike_timestamps', now')
       /\ (IsTick /\ spike_rate_update_counter' # 0) =>
             Len(ra_motion_spike_timestamps')
               = Len(ra_motion_spike_timestamps) + 1]_vars

\* a recompute tick has dropped stale entries from the head
C8_Witness ==
    /\ tick_count >= 2
    /\ spike_rate_update_counter = 0
    /\ Len(ra_motion_spike_timestamps) < tick_count
    /\ Len(ra_motion_spike_timestamps) >= 2

\* C9: current_spike_rate is recomputed on every 2nd tick, when the counter
\* reaches spike_rate_update_interval and is reset to 0, as the number of
\* true flags left in the window over the effective duration; every other
\* tick and every other operation leaves it unchanged.
C9_RateEveryOtherTick ==
    [][/\ IsTick =>
            /\ spike_rate_update_counter' = tick_count' % 2
            /\ spike_rate_update_counter' = 0 =>
                  LET flags == {i \in DOMAIN ra_motion_spike_timestamps' :
                                   ra_motion_spike_timestamps'[i].fired}
                      oldest == ra_motion_spike_timestamps'[1].t
                      duration == Clip(now' - oldest, min_effective_duration,
                                       spike_window_duration_sec)
                  IN  current_spike_rate' =
                         (Cardinality(flags) * TimeUnitsPerSecond
                            * RateUnitsPerHz) \div duration
            /\ spike_rate_update_counter' # 0 =>
                  /\ spike_rate_update_counter'
                       = spike_rate_update_counter + 1
                  /\ current_spike_rate' = current_spike_rate
       /\ ~IsTick =>
            /\ current_spike_rate' = current_spike_rate
            /\ spike_rate_update_counter' = spike_rate_update_counter]_vars

\* a recompute tick has counted some, not all, of the flags in the window
C9_Witness ==
    /\ spike_rate_update_counter = 0
    /\ tick_count >= 2
    /\ spike_count >= 1
    /\ spike_count < Len(ra_motion_spike_timestamps)
    /\ current_spike_rate > 0

\* C10: the divisor of every rate computation is
\* clamp(now - oldest, 5 ms, 25 ms), hence within [5 ms, 25 ms] and never 0,
\* and the rate is at most spike_count / 0.005.
C10_EffectiveDuration ==
    /\ min_effective_duration <= effective_duration
    /\ effective_duration <= spike_window_duration_sec
    /\ (tick_count >= 2 /\ spike_rate_update_counter = 0) =>
          /\ ra_motion_spike_timestamps # << >>
          /\ effective_duration =
                Clip(now - Head(ra_motion_spike_timestamps).t,
                     min_effective_duration, spike_window_duration_sec)
    /\ current_spike_rate * effective_duration
         <= spike_count * TimeUnitsPerSecond * RateUnitsPerHz
    /\ current_spike_rate * min_effective_duration
         <= spike_count * TimeUnitsPerSecond * RateUnitsPerHz

\* a rate was computed over a window younger than 5 ms: the floor applies
C10_Witness ==
    /\ tick_count >= 2
    /\ spike_rate_update_counter = 0
    /\ spike_count >= 1
    /\ now - Head(ra_motion_spike_timestamps).t < min_effective_duration
    /\ effective_duration = min_effective_duration
    /\ current_spike_rate
         = (spike_count * TimeUnitsPerSecond * RateUnitsPerHz)
             \div min_effective_duration

(***************************************************************************)
(* C11-C20: the calls made on the AudioPlayer, the sound cache and the     *)
(* life cycle of the loop                                                  *)
(***************************************************************************)
\* the operation that made the last transition
LastOp == last_call.op

\* the volume-set requests among the calls of the last operation
VolumeRequests(calls) == CallsOf(calls, "set_continuous_volume")

\* C11 as stated: on every tick, whether or not a motion spike occurred, a
\* volume-set request carrying the tick's current_volume is issued to
\* channel 1.  Violated on a tick of a system whose player registered no
\* loop (mixer initialisation failed, or after cleanup).
C11_Original ==
    [][IsTick =>
          VolumeRequests(audio_calls') =
              << SetContinuousVolumeCall(RaMotionChannel, current_volume') >>
      ]_vars

\* C11 (amended): on every tick on which a loop is registered on channel 1,
\* whether or not a motion spike occurred on that tick, exactly one
\* volume-set request carrying the tick's current_volume is issued to
\* channel 1 and becomes the player's target there; on a tick with no loop
\* registered no volume-set request is issued.
C11_VolumePushedWhilePlaying ==
    [][IsTick =>
          IF is_continuous_playing(continuous_channels, RaMotionChannel)
          THEN /\ VolumeRequests(audio_calls') =
                     << SetContinuousVolumeCall(RaMotionChannel,
                                                current_volume') >>
               /\ target_volumes'[RaMotionChannel] = current_volume'
          ELSE VolumeRequests(audio_calls') = << >>
      ]_vars

\* a tick without a motion spike pushed a non-zero current_volume
C11_Witness ==
    /\ LastOp = "step"
    /\ ~last_call.ra_motion_fired
    /\ current_volume > 0
    /\ VolumeRequests(audio_calls) =
          << SetContinuousVolumeCall(RaMotionChannel, current_volume) >>

\* the one-shot playback requests among the calls of the last operation
OneShotRequests(calls) == CallsOf(calls, "play_sound")

\* C12 as stated: a one-shot playback request is issued only within a tick
\* in which the neuron of its channel (pressure: 0, click: 2) spiked; no other
\* operation issues one.  Violated by mouse_press, which plays the click
\* sound on channel 2 without any spike.
C12_Original ==
    [][\A i \in 1..Len(OneShotRequests(audio_calls')) :
          /\ IsTick
          /\ LET played == OneShotRequests(audio_calls')[i]
             IN  IF last_call'.op = "step"
                 THEN \/ played.channel = SaChannel /\ last_call'.sa_fired
                      \/ played.channel = RaClickChannel
                         /\ last_call'.ra_click_fired
                 ELSE FALSE
      ]_vars

\* C12 (amended): within a tick, one one-shot request is issued per spiking
\* neuron of the pressure (channel 0) and click (channel 2) channels and none
\* for a neuron that did not spike; mouse_press issues exactly one request,
\* the current click sound on channel 2, without a spike; mouse_release,
\* change_material, cleanup and reset issue none.
C12_OneShotOnSpikeOrPress ==
    [][LET requests == OneShotRequests(audio_calls')
       IN  IF last_call'.op = "step"
           THEN /\ Len(requests) =
                      (IF last_call'.sa_fired THEN 1 ELSE 0)
                      + (IF last_call'.ra_click_fired THEN 1 ELSE 0)
                /\ last_call'.sa_fired <=>
                      \E i \in 1..Len(requests) :
                          requests[i] = PlaySound(sa_sound, SaChannel,
                                                  sa_sound_volume)
                /\ last_call'.ra_click_fired <=>
                      \E i \in 1..Len(requests) :
                          requests[i] = PlaySound(ra_click_sound,
                                                  RaClickChannel,
                                                  ra_click_volume)
           ELSE IF last_call'.op = "mouse_press"
           THEN requests = << PlaySound(ra_click_sound, RaClickChannel,
                                        ra_click_volume) >>
           ELSE requests = << >>
      ]_vars

\* a tick of a pressed system in which the pressure and the click neuron
\* both spiked has issued the two one-shot requests, on channels 0 and 2
C12_Witness ==
    /\ LastOp = "step"
    /\ mouse_pressed
    /\ last_call.sa_fired /\ last_call.ra_click_fired
    /\ OneShotRequests(audio_calls) =
          << PlaySound(sa_sound, SaChannel, sa_sound_volume),
             PlaySound(ra_click_sound, RaClickChannel, ra_click_volume) >>

\* C13: after construction no sequence of step, mouse_press, mouse_release
\* and change_material invokes a waveform generator or changes sound_cache
\* (both are as construction left them), and in a state reached by a
\* successful change_material a second change_material with the same index
\* synthesises nothing and ends in that same state.
C13_CacheFrozen ==
    /\ sound_cache = FreshSoundCache
    /\ generator_calls = InitAllSoundsCalls
    /\ (LastOp = "change_material" /\ last_call.returned) =>
          /\ ENABLED (change_material(current_material_key)
                      /\ UNCHANGED vars)
          /\ ~ENABLED (change_material(current_material_key)
                       /\ vars' # vars)

\* a successful change_material to another material, after ticks
C13_Witness ==
    /\ LastOp = "change_material"
    /\ last_call.returned
    /\ current_material_key = 3
    /\ ra_motion_loop_sound = RaMotionLoopKey(3)
    /\ tick_count > 0
    /\ current_volume > 0
    /\ sound_cache = FreshSoundCache

\* the loop starts and stops among the calls of the last operation
LoopStarts(calls) == CallsOf(calls, "start_continuous_sound")

LoopStops(calls) == CallsOf(calls, "stop_continuous_sound")

\* a material activation: construction (also the one inside a reset) or a
\* successful change_material
IsActivation(call) ==
    \/ call.op = "__init__"
    \/ call.op = "_reset_simulation"
    \/ (call.op = "change_material" /\ call.returned)

\* every start among the calls comes after a stop of channel 1
StopPrecedesStart(calls) ==
    \A i \in 1..Len(calls) :
        calls[i].op = "start_continuous_sound" =>
            \E j \in 1..(i - 1) :
                calls[j] = StopContinuousSound(RaMotionChannel)

\* C14: the loop on channel 1 is started exactly once per material
\* activation (construction, each successful change_material) and by no
\* other operation, always with the active material's loop sound; a start
\* issued while a loop is registered is preceded by the stop of that loop;
\* cleanup stops the registered loop and leaves none; channel 1 is the only
\* continuous channel and the loop registered there is the active
\* material's.
C14_LoopLifeCycle ==
    /\ [](/\ LoopStarts(audio_calls) =
                IF IsActivation(last_call)
                THEN << StartContinuousSound(ra_motion_loop_sound,
                                             RaMotionChannel,
                                             current_volume) >>
                ELSE << >>
          /\ DOMAIN continuous_channels \subseteq {RaMotionChannel}
          /\ is_continuous_playing(continuous_channels, RaMotionChannel) =>
                continuous_channels[RaMotionChannel] = ra_motion_loop_sound)
    /\ [][/\ is_continuous_playing(continuous_channels, RaMotionChannel)
             => /\ StopPrecedesStart(audio_calls')
                /\ Len(LoopStops(audio_calls')) <= 1
          /\ ~is_continuous_playing(continuous_channels, RaMotionChannel)
             => LoopStops(audio_calls') = << >>
          /\ last_call'.op = "cleanup"
             => /\ is_continuous_playing(continuous_channels,
                                         RaMotionChannel)
                   => LoopStops(audio_calls') =
                         << StopContinuousSound(RaMotionChannel) >>
                /\ ~is_continuous_playing(continuous_channels',
                                          RaMotionChannel)
          /\ LoopStops(audio_calls') # << >> =>
                last_call'.op \in {"cleanup", "_reset_simulation",
                                   "change_material"}
       ]_vars

\* a loop restarted for another material while the previous one played,
\* with the stop first
C14_Witness ==
    /\ LastOp = "change_material"
    /\ current_material_key = 3
    /\ current_volume > 0
    /\ audio_calls = << StopContinuousSound(RaMotionChannel),
                        StartContinuousSound(RaMotionLoopKey(3),
                                             RaMotionChannel,
                                             current_volume) >>
    /\ continuous_channels[RaMotionChannel] = RaMotionLoopKey(3)

\* the controller and the encoder as construction leaves them
ControllerAtInitialValues ==
    /\ ra_motion_spike_timestamps = << >>
    /\ current_spike_rate = 0
    /\ target_volume = 0
    /\ current_volume = 0
    /\ spike_rate_update_counter = 0
    /\ ~mouse_pressed
    /\ spike_encoder = [sa_input |-> 0, steps |-> 0]

\* C15: after the reset operation, from any reachable prior state, the
\* timestamp window is empty, current_spike_rate, target_volume and
\* current_volume are 0, the rate-update counter is 0, the press-state is
\* false and the encoder with its three neurons is a newly constructed one.
\* The reset is one handler of the event loop, so no tick sees part of it.
\* Holds for HapticGUI._reset_simulation (SpecLife); violated by
\* TestWindow._reset_simulation (SpecOld), which leaves the counter alone.
C15_ResetRestoresInitial ==
    LastOp \in {"_reset_simulation", "TestWindow._reset_simulation"} =>
        ControllerAtInitialValues

\* C16: change_material(index) with index outside 0..len(material_keys)-1
\* returns False and leaves the current material, roughness, the three
\* current sounds, the volume state and the continuous channel unchanged
\* (and calls nothing on the player); with a valid index it returns True
\* and the current material, roughness and the three current sounds are
\* those cached for material_keys[index].
C16_MaterialSelection ==
    [][\A index \in MaterialInputs :
          change_material(index) =>
              IF 0 <= index /\ index <= Len(material_keys) - 1
              THEN /\ last_call'.returned
                   /\ material_keys[current_material_key' + 1] =
                         material_keys[index + 1]
                   /\ current_roughness' = MaterialRoughness[index + 1]
                   /\ \A sound \in {ra_motion_sound', ra_click_sound',
                                    ra_motion_loop_sound'} :
                         /\ sound.material = material_keys[index + 1]
                         /\ sound \in DOMAIN sound_cache'
                   /\ ra_motion_sound'.role = "ra_motion"
                   /\ ra_click_sound'.role = "ra_click"
                   /\ ra_motion_loop_sound'.role = "ra_motion_loop"
              ELSE /\ ~last_call'.returned
                   /\ audio_calls' = << >>
                   /\ UNCHANGED << material_vars, controller_vars,
                                   player_vars, cache_vars, mouse_pressed >>
      ]_vars

\* an out-of-range request refused while another material than the first
\* is active and the loop sounds
C16_Witness ==
    /\ LastOp = "change_material"
    /\ ~last_call.returned
    /\ current_material_key = 3
    /\ ra_click_sound = RaClickKey(3)
    /\ current_volume > 0
    /\ is_continuous_playing(continuous_channels, RaMotionChannel)

\* what the claim counts as a configuration error
NeuronParameters(section) ==
    IF section = "ra_neuron"
    THEN {"base_a", "base_b", "base_c", "base_d", "v_init"}
    ELSE {"a", "b", "c", "d", "v_init"}

ConfigurationError(config) ==
    \/ \E section \in NeuronSections :
          ~(NeuronParameters(section) \subseteq config[section])
    \/ \E key \in DOMAIN config.sound :
          config.sound[key] <= 0 \/ config.sound[key] >= 22050
    \/ \E name \in DOMAIN config.materials :
          LET mat_props == config.materials[name]
          IN  \/ "r" \notin mat_props.keys
              \/ "f" \notin mat_props.keys
              \/ mat_props.r <= 0
              \/ mat_props.f <= 0

\* C17: a configuration with a missing neuron parameter (a, b, c, d or
\* v_init of any of the three channels), a base frequency outside
\* (0, 22050) or a malformed material profile (r or f missing, r <= 0,
\* f <= 0) ends in a validation failure.  Violated: a configuration whose
\* only error is a missing v_init passes _validate_config.
C17_ConfigErrorsFailFast ==
    (outcome.op = "get_haptic_config"
     /\ ConfigurationError(request.config)) =>
        outcome.raised = "AssertionError"

\* round(sample_rate * duration_ms / 1000), duration_ms in hundredths of a
\* millisecond; none of DurationInputs falls on a tie
RoundedSampleCount(ms) ==
    (2 * (sample_rate \div MsUnit) * ms + 1000) \div 2000

SoundsOf(result) ==
    IF result.op \in Generators THEN {result.sound}
    ELSE IF result.op = "_create_material_sounds"
    THEN {result.ra_motion, result.ra_click, result.ra_motion_loop}
    ELSE {}

\* C18: every generator, for every duration_ms > 0, produces exactly
\* round(sample_rate * duration_ms / 1000) samples (sample_rate = 44100),
\* and exactly 1 silent sample when that count is 0.
C18_RoundedSampleCount ==
    \A sound \in SoundsOf(outcome) :
        LET count == RoundedSampleCount(sound.ms)
        IN  IF count = 0
            THEN sound.size = 1 /\ sound.sample = 0
            ELSE sound.size = count

\* round(value * 32767), value in thousandths; no value of WaveInputs and
\* no value FinalValue makes of them falls on a tie that matters
RoundScaled(value) ==
    IF value >= 0
    THEN (2 * value * Int16Scale + WaveOne) \div (2 * WaveOne)
    ELSE -((2 * (-value) * Int16Scale + WaveOne) \div (2 * WaveOne))

\* C19: for every generator (generic tone, the seven material generators,
\* pressure tone, click tone) and every amplitude, each output sample equals
\* round(sample * 32767) clamped to [-32768, 32767], so no sample wraps
\* around the 16-bit range.  The sample taken is the value the generator
\* multiplies by 32767.
C19_QuantizationRoundsAndClamps ==
    \A sound \in SoundsOf(outcome) :
        NumSamples(sound.ms) > 0 =>
            sound.sample =
                Clip(RoundScaled(FinalValue(sound.waveform, request.wave)),
                     Int16Min, Int16Max)

\* the part of C19 about the range alone: the sample has the sign of the
\* value it was made from
C19_NoWrapAround ==
    \A sound \in SoundsOf(outcome) :
        NumSamples(sound.ms) > 0 =>
            LET value == FinalValue(sound.waveform, request.wave)
            IN  /\ value > 0 => sound.sample >= 0
                /\ value < 0 => sound.sample <= 0

\* the part of C19 about rounding alone, on values inside the range
C19_RoundsInsideRange ==
    \A sound \in SoundsOf(outcome) :
        LET value == FinalValue(sound.waveform, request.wave)
        IN  NumSamples(sound.ms) > 0 /\ Abs(value) <= WaveOne =>
                sound.sample = RoundScaled(value)

\* the sound create_sound_object makes for (hz, ms, amp, fade_out_ms): the
\* single sinusoid of create_sound_buffer, or one silent sample
GenericTone(hz, ms, amp, fade_out_ms, wave, cast) ==
    [waveform |-> "create_sound_buffer",
     hz |-> hz, ms |-> ms, amp |-> amp, fade_out_ms |-> fade_out_ms,
     size |-> IF NumSamples(ms) = 0 THEN 1 ELSE NumSamples(ms),
     sample |-> IF NumSamples(ms) = 0 THEN 0
                ELSE AsInt16(Scaled(wave), cast)]

\* C20: an unknown waveform type never fails: create_material_sound with a
\* material_type outside the seven known ones, and a material profile with
\* no 'type' entry, both produce the generic single-sinusoid tone for the
\* same (hz, ms, amp, fade_out_ms).
C20_UnknownTypeFallsBack ==
    /\ outcome.op = "create_material_sound"
       /\ request.material_type \notin MaterialTypes
       => outcome.sound =
              GenericTone(request.hz, request.ms, request.amp,
                          request.fade_out_ms, request.wave, outcome.cast)
    /\ outcome.op = "_create_material_sounds"
       /\ (~request.has_type \/ request.material_type \notin MaterialTypes)
       => LET hz == MaterialHz(ra_motion_base_hz, request.material)
          IN  /\ outcome.ra_motion =
                     GenericTone(hz, ra_motion_ms, ra_motion_base_amp, 10,
                                 request.wave, outcome.cast)
              /\ outcome.ra_motion_loop =
                     GenericTone(hz, loop_duration_ms, ra_motion_base_amp,
                                 0, request.wave, outcome.cast)

C20_Witness ==
    /\ outcome.op = "create_material_sound"
    /\ request.material_type = "stone"
    /\ request.ms = ra_motion_ms
    /\ request.wave = 700
    /\ outcome.sound.waveform = "create_sound_buffer"
    /\ outcome.sound.size = 4410
    /\ outcome.sound.sample = 22936

\* a profile without 'type' has been rendered
C20_ProfileWithoutType ==
    /\ outcome.op = "_create_material_sounds"
    /\ ~request.has_type
    /\ outcome.ra_motion.waveform = "create_sound_buffer"
    /\ outcome.ra_motion_loop.size = 88200

(***************************************************************************)
(* C21-C30: the neurons, the click pulse, the AudioPlayer's volumes and    *)
(* the frequencies of the material sounds                                  *)
(***************************************************************************)
\* the spike flag the last step reported for a channel
Fired(channel) ==
    IF channel = "sa" THEN last_call.sa_fired
    ELSE IF channel = "ra" THEN last_call.ra_motion_fired
    ELSE last_call.ra_click_fired

\* C21: for each of the three neuron channels, on every step that reports
\* spiked = true (v' >= 30.0) the stored v is exactly c and the stored u is
\* its pre-reset value plus d; on every step that reports spiked = false v
\* and u are the plain Euler update with no clamping.
C21_SpikeReset ==
    last_call.op = "step" =>
        \A channel \in NeuronChannels :
            LET before == last_call.before[channel]
                params == NeuronParams(channel)
                v_new == EulerV(before, last_call.currents[channel])
                u_new == EulerU(before, params)
                after == spike_encoder[channel]
            IN  /\ Fired(channel) <=> v_new >= spike_threshold_v
                /\ Fired(channel) =>
                      after.v = params.c /\ after.u = u_new + params.d
                /\ ~Fired(channel) =>
                      after.v = v_new /\ after.u = u_new

\* the click neuron spikes on a step on which the pressure neuron does not
C21_Witness ==
    /\ last_call.op = "step"
    /\ last_call.ra_click_fired
    /\ spike_encoder.ra_click.v = ra_click_neuron.c
    /\ spike_encoder.ra_click.u # last_call.before.ra_click.u + ra_click_neuron.d
    /\ ~last_call.sa_fired
    /\ spike_encoder.sa.v # last_call.before.sa.v

\* the pressure neuron and the motion neuron spike as well
C21_PressureSpike == last_call.op = "step" /\ last_call.sa_fired

C21_MotionSpike == last_call.op = "step" /\ last_call.ra_motion_fired

\* sample i of the latest steps is a rising edge of mouse_pressed: pressed,
\* and not pressed on the step before (or there is no step before: the
\* system is constructed with mouse_pressed false)
RisingEdgeAt(samples, i) ==
    /\ samples[i]
    /\ i > 1 => ~samples[i - 1]
    /\ i = 1 => Len(samples) <= RA_CLICK_SUSTAIN_DURATION

\* a rising edge on one of the latest ticks steps, the present one included
RisingEdgeWithin(samples, ticks) ==
    \E i \in DOMAIN samples :
        i > Len(samples) - ticks /\ RisingEdgeAt(samples, i)

\* C22: after a rising edge of mouse_pressed the click neuron receives a
\* nonzero current on exactly RA_CLICK_SUSTAIN_DURATION (3) consecutive
\* ticks and 0 on every later tick until the next rising edge, however long
\* mouse_pressed stays true: the click current of a tick is nonzero exactly
\* when a rising edge was seen on that tick or on one of the two before.
C22_ClickPulseThreeTicks ==
    last_call.op = "step" =>
        (last_call.currents.ra_click # 0
         <=> RisingEdgeWithin(spike_encoder.pressed_samples,
                              RA_CLICK_SUSTAIN_DURATION))

\* the fourth tick after a rising edge, mouse_pressed still true: no click
\* current
C22_Witness ==
    /\ last_call.op = "step"
    /\ spike_encoder.pressed_samples = << TRUE, TRUE, TRUE, TRUE >>
    /\ spike_encoder.steps = 5
    /\ mouse_pressed
    /\ last_call.currents.ra_click = 0

\* the third tick after a rising edge: the last tick of the pulse
C22_PulseLastTick ==
    /\ last_call.op = "step"
    /\ spike_encoder.pressed_samples = << FALSE, TRUE, TRUE, TRUE >>
    /\ last_call.currents.ra_click = ra_click_clip_max

InUnitRange(volume) == 0 <= volume /\ volume <= VolOne

\* the first two parts of C23: play_sound plays at the clipped volume and
\* set_continuous_volume stores the clipped volume; neither raises
C23_PlayAndSetClamp ==
    /\ last_call.op = "play_sound" =>
          /\ ~last_call.raised
          /\ last_call.returned =>
                last_call.played_volume = Clip(last_call.volume, 0, VolOne)
    /\ last_call.op = "set_continuous_volume" =>
          /\ ~last_call.raised
          /\ last_call.channel \in DOMAIN continuous_channels =>
                target_volumes[last_call.channel] =
                    Clip(last_call.volume, 0, VolOne)

\* C23: a volume outside [0,1] is clamped at the point of use and never
\* raised as an error: play_sound still plays, at the clipped volume;
\* set_continuous_volume stores the clipped value; hence every target
\* volume held by AudioPlayer is within [0,1].
C23_VolumesClamped ==
    /\ C23_PlayAndSetClamp
    /\ \A channel_id \in DOMAIN target_volumes :
          InUnitRange(target_volumes[channel_id])

\* a play_sound that played at a clipped volume
C23_PlayedClipped ==
    /\ last_call.op = "play_sound"
    /\ last_call.returned
    /\ last_call.volume = 15000
    /\ last_call.played_volume = VolOne

SameKeySets ==
    /\ DOMAIN target_volumes = DOMAIN continuous_channels
    /\ DOMAIN current_volumes = DOMAIN continuous_channels

\* C27: after any sequence of AudioPlayer operations the three maps
\* continuous_channels, target_volumes and current_volumes have the same
\* key set; stop_continuous_sound on a channel that is not playing changes
\* nothing, and after quit the key set is empty.
C27_MapsShareKeys ==
    /\ [](/\ SameKeySets
          /\ last_call.op = "quit" => DOMAIN continuous_channels = {})
    /\ [][\A channel_id \in ChannelInputs :
             stop_continuous_sound(channel_id)
             /\ ~is_continuous_playing(continuous_channels, channel_id)
             => UNCHANGED player_vars]_vars

\* the loop's channel is stopped a second time
C27_Witness ==
    /\ last_call.op = "stop_continuous_sound"
    /\ last_call.channel = RaMotionChannel
    /\ ~last_call.returned
    /\ is_initialized
    /\ DOMAIN target_volumes = {}

\* a quit that had a channel to stop
C27_QuitStopped ==
    /\ last_call.op = "quit"
    /\ DOMAIN target_volumes = {}
    /\ tick_count > 0

\* C24: in every state reachable by any sequence of step, mouse_press,
\* mouse_release and change_material calls, if mouse_pressed is false then
\* target_volume = 0 and current_volume = 0.
C24_SilentWhileReleased ==
    ~mouse_pressed => target_volume = 0 /\ current_volume = 0

\* released while the loop is still audible and the rate is still positive
C24_Witness ==
    /\ ~mouse_pressed
    /\ last_call.op = "mouse_release"
    /\ current_spike_rate > 0
    /\ RaMotionChannel \in DOMAIN current_volumes
    /\ current_volumes[RaMotionChannel] > 0
    /\ current_volume = 0

\* a tick while released, the rate still positive
C24_ReleasedTick ==
    /\ ~mouse_pressed
    /\ last_call.op = "step"
    /\ current_spike_rate > 0
    /\ target_volume = 0

\* a motion spike recorded at most 25 ms before the present tick, the
\* present tick's own flag included (the window keeps every entry that
\* young: pruning drops only entries older than 25 ms)
RecentMotionSpike ==
    \E i \in DOMAIN ra_motion_spike_timestamps :
        /\ ra_motion_spike_timestamps[i].fired
        /\ ra_motion_spike_timestamps[i].t >= now - spike_window_duration_sec

\* C25: on any tick executed with the press-state true, target_volume > 0
\* only if at least one motion spike was recorded within the 25 ms
\* preceding that tick; a spike rate computed before a release, or before a
\* pause in which no ticks ran, never makes target_volume nonzero later.
C25_VolumeOnlyAfterRecentSpike ==
    last_call.op = "step" /\ mouse_pressed /\ target_volume > 0
        => RecentMotionSpike

\* the same on the ticks that recompute the rate
C25_OnRecomputeTicks ==
    /\ last_call.op = "step"
    /\ spike_rate_update_counter = 0
    /\ mouse_pressed
    /\ target_volume > 0
    => RecentMotionSpike

\* the volume the loop on channel 1 is actually played at (0 without a loop)
LoopVolume(currents) ==
    IF RaMotionChannel \in DOMAIN currents THEN currents[RaMotionChannel]
    ELSE 0

\* C26: mouse_release leaves AudioPlayer.current_volumes as it is; on every
\* tick and every other step taken while the button stays released the
\* playback volume of channel 1 does not rise, falls strictly on a tick
\* while it is above 0 and stays 0 once it is 0; and 46 released ticks
\* (the number the 0.15 smoothing with its 0.001 snap needs from full
\* volume in 1/10000 units) after the last possible release it is exactly 0.
C26_ReleaseDecay ==
    /\ [](LoopVolume(current_volumes) >= 0)
    /\ [](~mouse_pressed /\ tick_count >= RampTicks + 46
             => LoopVolume(current_volumes) = 0)
    /\ [][/\ IsRelease => current_volumes' = current_volumes
          /\ ~mouse_pressed /\ ~mouse_pressed'
                => /\ LoopVolume(current_volumes')
                         <= LoopVolume(current_volumes)
                   /\ IsTick /\ LoopVolume(current_volumes) > 0
                         => LoopVolume(current_volumes')
                               < LoopVolume(current_volumes)]_vars

\* a released tick of the decay: the loop still sounds, above half volume,
\* although the controller's volume is 0
C26_Witness ==
    /\ ~mouse_pressed
    /\ LastOp = "step"
    /\ current_volume = 0
    /\ LoopVolume(current_volumes) > VolOne \div 2

\* the decay has reached exactly 0 after a release from above half volume
C26_Silent ==
    /\ ~mouse_pressed
    /\ LastOp = "step"
    /\ tick_count > FreeRampTicks
    /\ tick_count < RampTicks + 46
    /\ RaMotionChannel \in DOMAIN current_volumes
    /\ LoopVolume(current_volumes) = 0
    /\ current_spike_rate > 0

\* C28: a tick never carries current_volume past its target: the new
\* current_volume lies between the old one and the tick's target_volume,
\* ends included; and a tick whose target differs from current_volume
\* brings it strictly nearer, so that under a constant target the distance,
\* a multiple of the volume unit, is exactly 0 after finitely many ticks
\* and the volume then rests on the target.
C28_NoOvershoot ==
    [][IsTick =>
         LET t == target_volume'
             c == current_volume
             n == current_volume'
         IN  /\ Min(c, t) <= n /\ n <= Max(c, t)
             /\ c # t => Abs(t - n) < Abs(t - c)
             /\ c = t => n = t]_vars

\* a pressed tick has raised current_volume to a value strictly between 0
\* and its target
C28_Witness ==
    /\ mouse_pressed
    /\ LastOp = "step"
    /\ 0 < current_volume
    /\ current_volume < target_volume

\* a tick has snapped current_volume onto a target above 0
C28_Reached ==
    /\ mouse_pressed
    /\ LastOp = "step"
    /\ tick_count >= 2
    /\ target_volume > 0
    /\ current_volume = target_volume

\* C29: every one-shot request (play_sound) that HapticSystem issues names
\* channel 0 or channel 2, never channel 1; and the loop registered on
\* channel 1 is stopped, started or replaced by change_material and by
\* cleanup alone (the reset runs the cleanup of the old HapticSystem before
\* it constructs the new one): ticks, presses and releases leave it as it
\* is and issue neither a stop nor a start.
C29_ChannelRoles ==
    /\ [](\A i \in 1..Len(OneShotRequests(audio_calls)) :
             /\ OneShotRequests(audio_calls)[i].channel
                   \in {SaChannel, RaClickChannel}
             /\ OneShotRequests(audio_calls)[i].channel # RaMotionChannel)
    /\ [][\/ continuous_channels' # continuous_channels
          \/ LoopStops(audio_calls') # << >>
          \/ LoopStarts(audio_calls') # << >>
          => last_call'.op \in {"change_material", "cleanup",
                                "_reset_simulation"}]_vars

\* a tick with a pressure spike and a click spike while the loop plays:
\* two one-shot requests, and the loop of the active material still
\* registered on channel 1
C29_Witness ==
    /\ LastOp = "step"
    /\ Len(OneShotRequests(audio_calls)) = 2
    /\ is_continuous_playing(continuous_channels, RaMotionChannel)
    /\ continuous_channels[RaMotionChannel] = ra_motion_loop_sound
    /\ current_material_key # 0

\* C30: after _validate_config has accepted a configuration, every
\* frequency that _create_material_sounds hands to a generator for a
\* material, int(ra_motion_base_hz * f) and int(ra_click_hz * f), lies
\* strictly between 0 and 22050.
C30_FrequenciesInRange ==
    outcome.op = "_init_all_sounds" =>
        \A call \in outcome.frequencies : InAudioRange(call.hz)

\* what the validation does guarantee: the base frequencies are in the
\* audio range and every factor is positive when the sounds are built
C30_BasesInRange ==
    outcome.op = "_init_all_sounds" =>
        /\ InAudioRange(request.config.sound.ra_motion_base_hz)
        /\ InAudioRange(request.config.sound.ra_click_hz)
        /\ \A i \in 1..NumMaterials :
              request.config.materials[material_keys[i]].f > 0

==============================================================================
